---- MODULE Spec2Model ----
(***************************************************************************)
(* Node Definition Registry of stream-workflow-editor                      *)
(* (api/services/custom_node_service.py): the managed directory of node    *)
(* source files, the persisted registry.json, reconciliation on load and   *)
(* the create / update / delete / list operations built on it.             *)
(***************************************************************************)
EXTENDS Integers, Sequences, FiniteSets, TLC

(* ------------------------------------------------------------------ *)
(* Bounds of the model                                                  *)
(* ------------------------------------------------------------------ *)

\* number of operations (service calls and external edits) in one behaviour
MaxSteps == 3

\* depth at which the interpreter cuts a recursion (sys.getrecursionlimit(),
\* scaled down); the frames already on the stack make the cut fall one
\* level earlier or later
RecursionLimit == 4
\* longest body of a hand-written parameter block
MaxBody == 4

\* Python's None (also: "no match", "no such attribute")
None == <<"None">>

\* Strings that the code inspects character by character (identifiers, file
\* names, class names) are sequences of one-character strings.
\* identifiers users request and source files declare
Ids == { <<"a">>, <<"b">> }

\* f"{node_id}.py"
PyFile(id) == id \o <<".py">>

(* ------------------------------------------------------------------ *)
(* Source text.  The parameter editor reads a file character by         *)
(* character, so a text is a sequence of tokens: the characters it      *)
(* tells apart, one token for each stretch it treats as a unit.         *)
(* ------------------------------------------------------------------ *)

LB == "{"
RB == "}"
DQ == "\""
SQ == "'"
BS == "\\"
\* any other character
OC == "x"
\* a run of blanks, a newline
SP == "s"
NL == "n"
\* "INPUT_PARAMS = {" and "OUTPUT_PARAMS = {": name, equals sign and the
\* opening brace
IN_HDR == "INPUT_PARAMS={"
OUT_HDR == "OUTPUT_PARAMS={"
\* the comment lines "# 输入参数定义\n" and "# 输出参数定义\n"
IN_CMT == "#in\\n"
OUT_CMT == "#out\\n"

WS == {SP, NL}

\* a class body with both parameter blocks, each holding one parameter
\* whose schema is a quoted type name
PlainText ==
    <<OC, NL, SP, IN_CMT, SP, IN_HDR, NL, SP, DQ, OC, DQ, OC, SQ, OC, SQ, NL, SP, RB,
      NL, SP, OUT_CMT, SP, OUT_HDR, NL, SP, RB, NL, SP, OC>>

\* a file without parameter blocks
BareText == <<OC, NL, SP, OC>>

(* ------------------------------------------------------------------ *)
(* Source code of a node file: its text, and what the service reads     *)
(* from it besides: the argument of a textual @register_node('..')      *)
(* marker, the __node_id__ attribute stamped on the loaded class, and   *)
(* the name of the Node subclass the module defines (None: no such      *)
(* class, or the module does not load).                                 *)
(* ------------------------------------------------------------------ *)

Code(marker, stamped, cls, text) ==
    [marker |-> marker, stamped |-> stamped, cls |-> cls, text |-> text]

\* @register_node('a') / @register_node('b'): marker found by the regex,
\* decorator stamps the same id
MarkedCodes == { Code(i, i, <<"X">>, PlainText) : i \in Ids }

\* decorator written so that the regex misses it (e.g. blanks inside the
\* parentheses): no marker, but the class is stamped at load time
StampedCodes == { Code(None, <<"a">>, <<"X">>, PlainText) }

\* a file that defines no node class (or does not load)
BadCodes == { Code(None, None, None, BareText) }

Codes == MarkedCodes \cup StampedCodes \cup BadCodes

\* "no code" (operations that submit none)
NoCode == Code(None, None, None, <<>>)

(* ------------------------------------------------------------------ *)
(* Identifier resolution                                                *)
(* ------------------------------------------------------------------ *)

Upper == {"A", "B", "N", "X"}
Lower == {"a", "b", "d", "e", "n", "o", "x"}
Digit == {"0"}

ToLower(c) ==
    CASE c = "A" -> "a" [] c = "B" -> "b" [] c = "N" -> "n" [] c = "X" -> "x"
      [] OTHER -> c

\* end of the greedy run [a-z]+ that starts at position i (i - 1 if none)
RECURSIVE LowerRunEnd(_, _)
LowerRunEnd(s, i) ==
    IF i <= Len(s) /\ s[i] \in Lower THEN LowerRunEnd(s, i + 1) ELSE i - 1

\* re.sub('(.)([A-Z][a-z]+)', r'\1_\2', name), scanning from position i
RECURSIVE SubWord(_, _)
SubWord(s, i) ==
    IF i > Len(s) THEN <<>>
    ELSE IF i + 2 <= Len(s) /\ s[i + 1] \in Upper /\ s[i + 2] \in Lower
         THEN LET j == LowerRunEnd(s, i + 2)
              IN  <<s[i], "_">> \o SubSeq(s, i + 1, j) \o SubWord(s, j + 1)
         ELSE <<s[i]>> \o SubWord(s, i + 1)

\* re.sub('([a-z0-9])([A-Z])', r'\1_\2', s1), scanning from position i
RECURSIVE SubHump(_, _)
SubHump(s, i) ==
    IF i > Len(s) THEN <<>>
    ELSE IF i + 1 <= Len(s) /\ s[i] \in Lower \cup Digit /\ s[i + 1] \in Upper
         THEN <<s[i], "_", s[i + 1]>> \o SubHump(s, i + 2)
         ELSE <<s[i]>> \o SubHump(s, i + 1)

camel_to_snake(name) ==
    LET s2 == SubHump(SubWord(name, 1), 1)
    IN  [i \in 1..Len(s2) |-> ToLower(s2[i])]

EndsWith(s, suf) ==
    Len(s) >= Len(suf) /\ SubSeq(s, Len(s) - Len(suf) + 1, Len(s)) = suf

StartsWith(s, pre) ==
    Len(s) >= Len(pre) /\ SubSeq(s, 1, Len(pre)) = pre

\* str.replace(old, new): every non-overlapping occurrence, left to right
RECURSIVE Replace(_, _, _)
Replace(s, old, new) ==
    IF s = <<>> THEN <<>>
    ELSE IF StartsWith(s, old)
         THEN new \o Replace(SubSeq(s, Len(old) + 1, Len(s)), old, new)
         ELSE <<Head(s)>> \o Replace(Tail(s), old, new)

NodeSuffix == <<"n", "o", "d", "e">>
UNodeSuffix == <<"_", "n", "o", "d", "e">>

\* method 3 of _extract_node_id_from_file: id inferred from the class name
InferredId(name) ==
    LET inferred_id == camel_to_snake(name)
    IN  IF EndsWith(inferred_id, UNodeSuffix) THEN inferred_id
        ELSE IF EndsWith(inferred_id, NodeSuffix)
             THEN Replace(inferred_id, NodeSuffix, UNodeSuffix)
             ELSE inferred_id \o UNodeSuffix

\* re.search(r"@register_node\(['\"]([^'\"]+)['\"]\)", python_code)
MarkerOf(code) == code.marker

ExtractFromCodeStampFirst(code, node) ==
    IF node /\ code.cls # None /\ code.stamped # None THEN code.stamped
    ELSE IF MarkerOf(code) # None THEN MarkerOf(code)
    ELSE IF ~node THEN None
    ELSE IF code.cls = None THEN None
    ELSE InferredId(code.cls)

\* _extract_node_id_from_file on the text of an existing file; node tells
\* whether stream_workflow (the Node base class) could be imported
ExtractFromCode(code, node) ==
    IF MarkerOf(code) # None THEN MarkerOf(code)
    ELSE IF ~node THEN None
    ELSE IF code.cls = None THEN None
    ELSE IF code.stamped # None THEN code.stamped
    ELSE InferredId(code.cls)

(* ------------------------------------------------------------------ *)
(* The managed directory and registry.json                              *)
(*   fs.dir : file name -> [code, mtime]   (the *.py files present)     *)
(*   fs.rf  : registry.json, [state, nodes]                             *)
(* An environment env fixes what one call cannot change: whether Node   *)
(* is importable, the wall clock, the order in which glob() and a set   *)
(* iterate, and the depth at which the recursion is cut.                *)
(* ------------------------------------------------------------------ *)

AbsentFile == [state |-> "absent", nodes |-> <<>>]

\* a registry file json.load cannot parse
CorruptFile == [state |-> "corrupt", nodes |-> <<>>]

Exists(dir, f) == f \in DOMAIN dir

\* open(path, 'w').write(code): creates or replaces the file
WriteFile(dir, f, code, now) ==
    [g \in DOMAIN dir \cup {f} |->
        IF g = f THEN [code |-> code, mtime |-> now] ELSE dir[g]]

\* Path.unlink()
Unlink(dir, f) == [g \in DOMAIN dir \ {f} |-> dir[g]]

\* Path.rename(new): the content and mtime move to the new name; an existing
\* target is replaced (POSIX)
Rename(dir, old, new) ==
    [g \in (DOMAIN dir \ {old}) \cup {new} |->
        IF g = new THEN dir[old] ELSE dir[g]]

\* a set listed in one of the two directions of a fixed enumeration
RECURSIVE Enumerate(_)
Enumerate(S) ==
    IF S = {} THEN <<>>
    ELSE LET e == CHOOSE x \in S : TRUE IN <<e>> \o Enumerate(S \ {e})

Reverse(s) == [i \in 1..Len(s) |-> s[Len(s) + 1 - i]]

Listing(S, rev) == IF rev THEN Reverse(Enumerate(S)) ELSE Enumerate(S)

\* custom_nodes_dir.glob("*.py") without __init__.py and "_"-prefixed names
ScannedFiles(dir) == { f \in DOMAIN dir : ~StartsWith(f, <<"_">>) }

\* _extract_node_id_from_file(py_file): a file that cannot be opened or
\* loaded gives None
_extract_node_id_from_file(dir, f, env) ==
    IF Exists(dir, f) THEN ExtractFromCode(dir[f].code, env.node) ELSE None

HasId(nodes, id) == \E i \in 1..Len(nodes) : nodes[i].id = id

\* index of the first entry with this id (0: none)
FirstWithId(nodes, id) ==
    IF HasId(nodes, id)
    THEN CHOOSE i \in 1..Len(nodes) :
            nodes[i].id = id /\ \A j \in 1..(i - 1) : nodes[j].id # id
    ELSE 0

\* save_registry(registry)
save_registry(fs, nodes) ==
    [fs EXCEPT !.rf = [state |-> "ok", nodes |-> nodes]]

\* "no entry" (Python returns None where an entry is expected)
NoEntry ==
    [id |-> None, pythonFile |-> None, mtime |-> 0, createdAt |-> 0, updatedAt |-> 0]

NewEntry(id, f, mtime, now) ==
    [id |-> id, pythonFile |-> f, mtime |-> mtime,
     createdAt |-> now, updatedAt |-> now]

\* a scan that gives up at the first file that yields no id, losing what it
\* had found
ScanFileStopsAtBadFile(nodes, f, node_id, mtime, now) ==
    IF node_id = None THEN <<>>
    ELSE IF HasId(nodes, node_id) THEN nodes
    ELSE Append(nodes, NewEntry(node_id, f, mtime, now))

\* lines 1080-1096 of _auto_scan_nodes: the file is registered unless it
\* yields no id or an id seen before
ScanFile(nodes, f, node_id, mtime, now) ==
    IF node_id = None \/ HasId(nodes, node_id) THEN nodes
    ELSE Append(nodes, NewEntry(node_id, f, mtime, now))

\* _auto_scan_nodes(custom_nodes_dir, registry): one entry per id not seen
\* yet, in glob order
RECURSIVE AutoScanFiles(_, _, _, _)
AutoScanFiles(files, nodes, dir, env) ==
    IF files = <<>> THEN nodes
    ELSE AutoScanFiles(Tail(files),
                       ScanFile(nodes, Head(files),
                                _extract_node_id_from_file(dir, Head(files), env),
                                dir[Head(files)].mtime, env.now),
                       dir, env)

_auto_scan_nodes(nodes, dir, env) ==
    IF ~env.node THEN nodes
    ELSE AutoScanFiles(Listing(ScannedFiles(dir), env.grev), nodes, dir, env)

\* lines 910-914 of _scan_and_create_registry: the scanned entries are
\* saved only when something was found
Scanned(fs, nodes) ==
    [raised |-> FALSE, cut |-> FALSE, nodes |-> nodes, changed |-> nodes # <<>>,
     fs |-> IF nodes # <<>> THEN save_registry(fs, nodes) ELSE fs]

\* _scan_and_create_registry()
_scan_and_create_registry(fs, env) ==
    Scanned(fs, _auto_scan_nodes(<<>>, fs.dir, env))

\* lines 1002-1013 of _create_node_entry_from_file
EntryFor(node_id, f, mtime, now) ==
    IF node_id = None THEN NoEntry ELSE NewEntry(node_id, f, mtime, now)

\* _create_node_entry_from_file(py_file); None when no id can be derived
_create_node_entry_from_file(dir, f, env) ==
    EntryFor(_extract_node_id_from_file(dir, f, env), f, dir[f].mtime, env.now)

\* a step 3 that reports an update for every new file, registered or not
AddEntryAlwaysReports(acc, node_entry, mtime) ==
    IF node_entry = NoEntry THEN [nodes |-> acc.nodes, added |-> TRUE]
    ELSE [nodes |-> Append(acc.nodes, [node_entry EXCEPT !.mtime = mtime]),
          added |-> TRUE]

\* lines 990-993 of _check_and_update_registry: an entry that could be built
\* is appended
AddEntry(acc, node_entry, mtime) ==
    IF node_entry = NoEntry THEN acc
    ELSE [nodes |-> Append(acc.nodes, [node_entry EXCEPT !.mtime = mtime]),
          added |-> TRUE]

\* step 3 of _check_and_update_registry: every new file that yields an entry
\* is appended
RECURSIVE AddNewFilesFrom(_, _, _, _, _)
AddNewFilesFrom(files, acc, cur, dir, env) ==
    IF files = <<>> THEN acc
    ELSE AddNewFilesFrom(Tail(files),
                         AddEntry(acc,
                                  _create_node_entry_from_file(dir, Head(files), env),
                                  cur[Head(files)]),
                         cur, dir, env)

AddNewFiles(files, nodes, cur, dir, env) ==
    AddNewFilesFrom(files, [nodes |-> nodes, added |-> FALSE], cur, dir, env)

RemoveIndices(nodes, rm) ==
    LET keep == { i \in 1..Len(nodes) : i \notin rm }
        Rank(i) == Cardinality({ j \in keep : j <= i })
    IN  [k \in 1..Cardinality(keep) |->
            nodes[CHOOSE i \in keep : Rank(i) = k]]

RECURSIVE load_registry(_, _, _)
RECURSIVE CheckEntries(_, _, _, _, _)

\* lines 1023-1051 of _update_node_entry, node_id being the id read from the
\* file and r what load_registry() at line 1031 returned.
\* cut: a RecursionError was raised below and swallowed by an except clause
Rekeyed(node_entry, node_id, r, fs, env) ==
    LET current_id == node_entry.id
        old == node_entry.pythonFile
        new == PyFile(node_id)
        move == old # new /\ Exists(r.fs.dir, old) /\ ~Exists(r.fs.dir, new)
    IN  IF r.raised THEN [entry |-> node_entry, fs |-> fs, cut |-> TRUE]
        ELSE IF \E i \in 1..Len(r.nodes) :
                   r.nodes[i].id = node_id /\ r.nodes[i].id # current_id
        THEN [entry |-> node_entry, fs |-> r.fs, cut |-> r.cut]
        ELSE [entry |-> [node_entry EXCEPT
                           !.pythonFile = IF move THEN new ELSE old,
                           !.id = node_id,
                           !.updatedAt = env.now],
              cut |-> r.cut,
              fs |-> IF move THEN [r.fs EXCEPT !.dir = Rename(r.fs.dir, old, new)]
                     ELSE r.fs]

\* lines 1022-1029 of _update_node_entry: nothing to do unless the file
\* yields an id other than the entry's
UpdateEntry(node_entry, node_id, fs, env, d) ==
    IF node_id = None \/ node_id = node_entry.id
    THEN [entry |-> node_entry, fs |-> fs, cut |-> FALSE]
    ELSE Rekeyed(node_entry, node_id, load_registry(fs, env, d + 1), fs, env)

\* _update_node_entry(node_entry, py_file), called at recursion depth d
_update_node_entry(node_entry, f, fs, env, d) ==
    UpdateEntry(node_entry, _extract_node_id_from_file(fs.dir, f, env), fs, env, d)

\* a reconciliation that re-derives the entry and keeps the mtime it had
EntryCheckedKeepsMtime(st, i, mtime, u) ==
    [st EXCEPT !.nodes[i] = u.entry,
               !.fs = u.fs,
               !.cut = @ \/ u.cut,
               !.registered = @ \cup {st.nodes[i].pythonFile},
               !.updated = TRUE]

\* lines 975-977 of _check_and_update_registry: entry i after
\* _update_node_entry returned u
EntryChecked(st, i, mtime, u) ==
    [st EXCEPT !.nodes[i] = [u.entry EXCEPT !.mtime = mtime],
               !.fs = u.fs,
               !.cut = @ \/ u.cut,
               !.registered = @ \cup {st.nodes[i].pythonFile},
               !.updated = TRUE]

\* step 2 of _check_and_update_registry from entry i on; cur is the
\* name -> mtime snapshot taken in step 1
CheckEntries(st, i, cur, env, d) ==
    IF i > Len(st.nodes) THEN st
    ELSE LET node_entry == st.nodes[i]
             python_file == node_entry.pythonFile
         IN  IF python_file \notin DOMAIN cur
             THEN CheckEntries([st EXCEPT !.remove = @ \cup {i},
                                          !.registered = @ \cup {python_file},
                                          !.updated = TRUE],
                               i + 1, cur, env, d)
             ELSE IF cur[python_file] > node_entry.mtime
             THEN CheckEntries(
                     EntryChecked(st, i, cur[python_file],
                        _update_node_entry(node_entry, python_file, st.fs, env, d)),
                     i + 1, cur, env, d)
             ELSE CheckEntries([st EXCEPT !.registered = @ \cup {python_file}],
                               i + 1, cur, env, d)

\* line 995: what _check_and_update_registry leaves, st being the state
\* after step 2 and add the outcome of step 3
Checked(st, add) ==
    [nodes |-> add.nodes, fs |-> st.fs, cut |-> st.cut,
     updated |-> st.updated \/ add.added]

\* lines 980-993 of _check_and_update_registry: the entries of deleted files
\* are dropped, the new files are registered
DropAndAdd(st, cur, env) ==
    Checked(st, AddNewFiles(Listing(DOMAIN cur \ st.registered, env.srev),
                            RemoveIndices(st.nodes, st.remove),
                            cur, st.fs.dir, env))

\* lines 935-948 of _check_and_update_registry: name -> mtime of the files
CurrentFiles(dir) == [f \in ScannedFiles(dir) |-> dir[f].mtime]

\* _check_and_update_registry(registry)
_check_and_update_registry(nodes, fs, env, d) ==
    DropAndAdd(CheckEntries([nodes |-> nodes, fs |-> fs, updated |-> FALSE,
                             cut |-> FALSE, registered |-> {}, remove |-> {}],
                            1, CurrentFiles(fs.dir), env, d),
               CurrentFiles(fs.dir), env)

\* lines 64-68 of load_registry: the registry is saved when the check
\* reports an update
Reconciled(c) ==
    [raised |-> FALSE, cut |-> c.cut, nodes |-> c.nodes, changed |-> c.updated,
     fs |-> IF c.updated THEN save_registry(c.fs, c.nodes) ELSE c.fs]

\* load_registry() at recursion depth d; raised: RecursionError
load_registry(fs, env, d) ==
    IF d >= env.lim
    THEN [raised |-> TRUE, cut |-> TRUE, nodes |-> <<>>, changed |-> FALSE,
          fs |-> fs]
    ELSE IF fs.rf.state # "ok" THEN _scan_and_create_registry(fs, env)
    ELSE Reconciled(_check_and_update_registry(fs.rf.nodes, fs, env, d))

(* ------------------------------------------------------------------ *)
(* Service operations.  Each returns the file system it leaves, the     *)
(* outcome reported to the caller, and what its first load_registry()   *)
(* returned (loaded) and left on disk (mid).                            *)
(* ------------------------------------------------------------------ *)

Outcome(result, fs, L, entry, listed) ==
    [result |-> result, fs |-> fs, loaded |-> L.nodes, mid |-> L.fs,
     changed |-> L.changed, cut |-> L.cut, entry |-> entry, listed |-> listed]

\* lines 410-436 of create_custom_node: the id read from the loaded module.
\* The function binds sys locally (import sys, line 477), so the reference
\* at line 420 raises UnboundLocalError, which line 435 swallows.
CreateModuleId(code, env) == None

MoveToActualKeepsProvisional(dir1, node_id, actual_node_id, python_code, now) ==
    IF actual_node_id # node_id
    THEN WriteFile(dir1, PyFile(actual_node_id), python_code, now)
    ELSE dir1

\* lines 444-454 of create_custom_node: when the id in the code differs from
\* the requested one, the provisional file is deleted and the code is
\* written again under the actual id
MoveToActual(dir1, node_id, actual_node_id, python_code, now) ==
    IF actual_node_id # node_id
    THEN WriteFile(Unlink(dir1, PyFile(node_id)),
                   PyFile(actual_node_id), python_code, now)
    ELSE dir1

\* lines 384-486 of create_custom_node, L being what load_registry() at
\* line 382 returned
CreateLoaded(node_id, python_code, L, env) ==
    LET registry == L.nodes
    IN  IF HasId(registry, node_id)
        THEN Outcome("DuplicateId", L.fs, L, NoEntry, <<>>)
        ELSE LET dir1 == WriteFile(L.fs.dir, PyFile(node_id), python_code, env.now)
                 marker == MarkerOf(python_code)
                 loaded_id == IF marker # None THEN marker
                              ELSE CreateModuleId(python_code, env)
                 actual_node_id == IF loaded_id # None THEN loaded_id ELSE node_id
                 python_file == PyFile(actual_node_id)
                 dir2 == MoveToActual(dir1, node_id, actual_node_id,
                                      python_code, env.now)
                 fs2 == [L.fs EXCEPT !.dir = dir2]
             IN  IF HasId(registry, actual_node_id)
                 THEN Outcome("DuplicateId", fs2, L, NoEntry, <<>>)
                 ELSE LET node_entry == NewEntry(actual_node_id, python_file,
                                                 dir2[python_file].mtime, env.now)
                      IN  Outcome("ok", save_registry(fs2, Append(registry, node_entry)),
                                  L, node_entry, <<>>)

\* create_custom_node(node_id, .., python_code)
create_custom_node(node_id, python_code, fs, env) ==
    CreateLoaded(node_id, python_code, load_registry(fs, env, 0), env)

\* lines 499-559 of update_custom_node, L being what load_registry() at
\* line 497 returned
UpdateLoaded(node_id, python_code, L, env) ==
    LET registry == L.nodes
        k == FirstWithId(registry, node_id)
    IN  IF k = 0 THEN Outcome("NotFound", L.fs, L, NoEntry, <<>>)
        ELSE LET node_entry == registry[k]
                 python_file == node_entry.pythonFile
                 dir1 == WriteFile(L.fs.dir, python_file, python_code, env.now)
                 actual_node_id == MarkerOf(python_code)
                 rekey == actual_node_id # None /\ actual_node_id # node_entry.id
                          /\ ~(\E i \in 1..Len(registry) :
                                  registry[i].id = actual_node_id
                                  /\ registry[i].id # node_id)
                 new_python_file == PyFile(actual_node_id)
                 move == rekey /\ python_file # new_python_file
                 dir2 == IF move THEN Rename(dir1, python_file, new_python_file)
                         ELSE dir1
                 entry2 == IF rekey
                           THEN [node_entry EXCEPT
                                   !.pythonFile = IF move THEN new_python_file ELSE @,
                                   !.id = actual_node_id]
                           ELSE node_entry
                 fs2 == [L.fs EXCEPT !.dir = dir2]
             IN  \* python_path.stat() still names the file under its old name
                 IF ~Exists(dir2, python_file)
                 THEN Outcome("IOFailure", fs2, L, NoEntry, <<>>)
                 ELSE LET entry3 == [entry2 EXCEPT !.updatedAt = env.now,
                                                   !.mtime = dir2[python_file].mtime]
                      IN  Outcome("ok",
                                  save_registry(fs2, [registry EXCEPT ![k] = entry3]),
                                  L, entry3, <<>>)

\* update_custom_node(node_id, python_code); update_custom_node_full runs
\* the same steps on the registry and the file
update_custom_node(node_id, python_code, fs, env) ==
    UpdateLoaded(node_id, python_code, load_registry(fs, env, 0), env)

RemoveBackingFileSkipped(dir0, python_file) == dir0

\* lines 843-847 of delete_custom_node: the backing file is deleted when it
\* exists
RemoveBackingFile(dir0, python_file) ==
    IF Exists(dir0, python_file) THEN Unlink(dir0, python_file) ELSE dir0

\* a delete that removes the first entry of the registry when none has the id
DeleteLoadedFallsBack(node_id, L) ==
    LET registry == L.nodes
        k == IF HasId(registry, node_id) THEN FirstWithId(registry, node_id)
             ELSE IF registry # <<>> THEN 1 ELSE 0
    IN  IF k = 0 THEN Outcome("NotFound", L.fs, L, NoEntry, <<>>)
        ELSE LET python_file == registry[k].pythonFile
                 dir1 == RemoveBackingFile(L.fs.dir, python_file)
             IN  Outcome("ok",
                         save_registry([L.fs EXCEPT !.dir = dir1],
                                       RemoveIndices(registry, {k})),
                         L, registry[k], <<>>)

\* lines 831-852 of delete_custom_node, L being what load_registry() at
\* line 829 returned
DeleteLoaded(node_id, L) ==
    LET registry == L.nodes
        k == FirstWithId(registry, node_id)
    IN  IF k = 0 THEN Outcome("NotFound", L.fs, L, NoEntry, <<>>)
        ELSE LET python_file == registry[k].pythonFile
                 dir1 == RemoveBackingFile(L.fs.dir, python_file)
             IN  Outcome("ok",
                         save_registry([L.fs EXCEPT !.dir = dir1],
                                       RemoveIndices(registry, {k})),
                         L, registry[k], <<>>)

\* delete_custom_node(node_id)
delete_custom_node(node_id, fs, env) ==
    DeleteLoaded(node_id, load_registry(fs, env, 0))

(* ------------------------------------------------------------------ *)
(* update_custom_node_parameters: the text-level replacement            *)
(* ------------------------------------------------------------------ *)

\* one generated parameter: '"name": ParameterSchema(.. schema=<repr> ..)'
ParamCode(param) ==
    <<SP, DQ, OC, DQ, OC, NL, SP, OC, NL, SP, OC>> \o param.schema \o <<NL, SP, OC>>

\* ',\n'.join(lines)
RECURSIVE JoinParams(_)
JoinParams(params) ==
    IF params = <<>> THEN <<>>
    ELSE IF Len(params) = 1 THEN ParamCode(params[1])
    ELSE ParamCode(params[1]) \o <<OC, NL>> \o JoinParams(Tail(params))

\* position of the first header token (0: re.search finds nothing)
FindHeader(code, hdr) ==
    IF \E i \in 1..Len(code) : code[i] = hdr
    THEN CHOOSE i \in 1..Len(code) :
            code[i] = hdr /\ \A j \in 1..(i - 1) : code[j] # hdr
    ELSE 0

\* start of the whitespace run that ends just before position i
RECURSIVE BackWS(_, _)
BackWS(code, i) ==
    IF i > 1 /\ code[i - 1] \in WS THEN BackWS(code, i - 1) ELSE i

\* match.start() of r'(\s*#\s*<comment>\s*\n)?\s*<NAME>\s*=\s*\{' for the
\* header at position h
MatchStart(code, h, cmt) ==
    LET p == BackWS(code, h)
    IN  IF p > 1 /\ code[p - 1] = cmt THEN BackWS(code, p - 1) ELSE p

\* the loop "for i in range(start_pos, len(current_code))": position of the
\* brace at which brace_count reaches 0 (0: the loop ends without break)
RECURSIVE ScanBraces(_, _, _, _, _)
ScanBraces(code, i, brace_count, in_string, string_char) ==
    IF i > Len(code) THEN 0
    ELSE LET char == code[i]
             prev_char == code[i - 1]
             opens == ~in_string /\ char \in {DQ, SQ}
             closes == in_string /\ char = string_char /\ prev_char # BS
             in2 == IF opens THEN TRUE ELSE IF closes THEN FALSE ELSE in_string
             sc2 == IF opens THEN char ELSE string_char
             up == ~in2 /\ char \in {LB, IN_HDR, OUT_HDR}
             down == ~in2 /\ char = RB
         IN  IF down /\ brace_count = 1 THEN i
             ELSE ScanBraces(code, i + 1,
                             IF up THEN brace_count + 1
                             ELSE IF down THEN brace_count - 1 ELSE brace_count,
                             in2, sc2)

\* the block "if input_match:" / "if output_match:": the text with the
\* first block of this kind replaced
ReplaceBlock(current_code, hdr, cmt, new_params_code) ==
    LET h == FindHeader(current_code, hdr)
    IN  IF h = 0 THEN current_code
        ELSE LET found == ScanBraces(current_code, h + 1, 1, FALSE, "")
                 end_pos == IF found = 0 THEN h + 1 ELSE found
                 before == SubSeq(current_code, 1, MatchStart(current_code, h, cmt) - 1)
                 after == SubSeq(current_code, end_pos + 1, Len(current_code))
             IN  before \o <<SP, cmt, SP, hdr, NL>> \o new_params_code
                        \o <<NL, SP, RB>> \o after

\* lines 696-795: the text written back for the text read
RewriteParams(current_code, inputs, outputs) ==
    ReplaceBlock(ReplaceBlock(current_code, IN_HDR, IN_CMT, JoinParams(inputs)),
                 OUT_HDR, OUT_CMT, JoinParams(outputs))

\* lines 676-817 of update_custom_node_parameters, L being what
\* load_registry() at line 674 returned
ParametersLoaded(node_id, inputs, outputs, L, env) ==
    LET registry == L.nodes
        k == FirstWithId(registry, node_id)
    IN  IF k = 0 THEN Outcome("NotFound", L.fs, L, NoEntry, <<>>)
        ELSE LET python_file == registry[k].pythonFile
             IN  IF ~Exists(L.fs.dir, python_file)
                 THEN Outcome("NotFound", L.fs, L, NoEntry, <<>>)
                 ELSE LET old == L.fs.dir[python_file].code
                          new == [old EXCEPT
                                    !.text = RewriteParams(@, inputs, outputs)]
                          dir1 == WriteFile(L.fs.dir, python_file, new, env.now)
                          entry2 == [registry[k] EXCEPT !.updatedAt = env.now,
                                                        !.mtime = env.now]
                      IN  Outcome("ok",
                                  save_registry([L.fs EXCEPT !.dir = dir1],
                                                [registry EXCEPT ![k] = entry2]),
                                  L, entry2, <<>>)

\* update_custom_node_parameters(node_id, inputs, outputs)
update_custom_node_parameters(node_id, inputs, outputs, fs, env) ==
    ParametersLoaded(node_id, inputs, outputs, load_registry(fs, env, 0), env)

(* ------------------------------------------------------------------ *)
(* Listing                                                              *)
(* ------------------------------------------------------------------ *)

NoMetadata == [id |-> None, pythonFile |-> None]

\* lines 268-363 of get_custom_node_metadata, L being what load_registry()
\* at line 265 returned: the id and file of the descriptor, or None
MetadataLoaded(node_id, L) ==
    LET k == FirstWithId(L.nodes, node_id)
        python_file == L.nodes[k].pythonFile
        code == L.fs.dir[python_file].code
    IN  [fs |-> L.fs, cut |-> L.cut,
         metadata |->
            IF k = 0 THEN NoMetadata
            ELSE IF ~Exists(L.fs.dir, python_file) THEN NoMetadata
            ELSE IF code.cls = None THEN NoMetadata
            ELSE [id |-> IF code.stamped # None THEN code.stamped ELSE node_id,
                  pythonFile |-> python_file]]

\* get_custom_node_metadata(node_id): None (NoMetadata), or the descriptor;
\* it loads the registry itself
get_custom_node_metadata(node_id, fs, env) ==
    IF ~env.node THEN [metadata |-> NoMetadata, fs |-> fs, cut |-> FALSE]
    ELSE MetadataLoaded(node_id, load_registry(fs, env, 0))

\* lines 866-894 of list_custom_nodes: entry i of the registry, m being what
\* get_custom_node_metadata returned for its id
ListEntry(st, i, m) ==
    LET node_entry == st.registry[i]
        node_id == node_entry.id
        st1 == [st EXCEPT !.fs = m.fs, !.cut = @ \/ m.cut]
        actual_node_id == m.metadata.id
        old == node_entry.pythonFile
        new == PyFile(actual_node_id)
        move == old # new /\ Exists(m.fs.dir, old) /\ ~Exists(m.fs.dir, new)
    IN  IF m.metadata = NoMetadata THEN st1
        ELSE IF actual_node_id = node_id
        THEN [st1 EXCEPT !.nodes = Append(@, m.metadata)]
        ELSE IF \E j \in 1..Len(st.registry) :
                   st.registry[j].id = actual_node_id /\ st.registry[j].id # node_id
        THEN [st1 EXCEPT !.nodes = Append(@, [m.metadata EXCEPT !.id = node_id])]
        ELSE [st1 EXCEPT
                !.fs.dir = IF move THEN Rename(@, old, new) ELSE @,
                !.registry[i] = [node_entry EXCEPT
                                   !.pythonFile = IF move THEN new ELSE old,
                                   !.id = actual_node_id],
                !.registry_updated = TRUE,
                !.nodes = Append(@, m.metadata)]

\* the loop of list_custom_nodes from entry i on
RECURSIVE ListEntries(_, _, _)
ListEntries(st, i, env) ==
    IF i > Len(st.registry) THEN st
    ELSE ListEntries(
            ListEntry(st, i, get_custom_node_metadata(st.registry[i].id, st.fs, env)),
            i + 1, env)

\* lines 897-900 of list_custom_nodes: the registry is saved when an entry
\* was re-keyed
Listed(L, st) ==
    [Outcome("ok",
             IF st.registry_updated THEN save_registry(st.fs, st.registry)
             ELSE st.fs,
             L, NoEntry, st.nodes)
     EXCEPT !.cut = st.cut]

\* lines 858-900 of list_custom_nodes, L being what load_registry() at line
\* 857 returned
ListLoaded(L, env) ==
    Listed(L, ListEntries([registry |-> L.nodes, fs |-> L.fs, nodes |-> <<>>,
                           registry_updated |-> FALSE, cut |-> L.cut],
                          1, env))

\* list_custom_nodes()
list_custom_nodes(fs, env) == ListLoaded(load_registry(fs, env, 0), env)

\* load_registry() called on its own (every read operation starts with it)
LoadOutcome(L) == Outcome("ok", L.fs, L, NoEntry, <<>>)

load_only(fs, env) == LoadOutcome(load_registry(fs, env, 0))

(* ------------------------------------------------------------------ *)
(* The loaded plugin table (custom_nodes/__init__.py): node id -> the   *)
(* class loaded for it, told apart by the file and the text it came     *)
(* from                                                                 *)
(* ------------------------------------------------------------------ *)

\* _loaded_nodes = {}
NoTable == << >>

\* _loaded_nodes[node_id] = obj
Put(table, node_id, obj) ==
    [k \in DOMAIN table \cup {node_id} |-> IF k = node_id THEN obj ELSE table[k]]

NoClass == [file |-> None, code |-> NoCode]

\* _loaded_nodes.get(node_id)
Get(table, node_id) ==
    IF node_id \in DOMAIN table THEN table[node_id] ELSE NoClass

\* lines 76-82 of load_custom_nodes: the key of a class, from __node_id__
\* or else from its name
TableId(code) ==
    IF code.stamped # None THEN code.stamped
    ELSE LET node_id == Replace([i \in 1..Len(code.cls) |-> ToLower(code.cls[i])],
                                NodeSuffix, <<>>)
         IN  IF node_id # <<>> /\ ~EndsWith(node_id, UNodeSuffix)
             THEN node_id \o UNodeSuffix
             ELSE node_id

\* lines 55-86 of load_custom_nodes: one turn of the loop, for py_file; a
\* module without a Node subclass, or one that fails to import, adds nothing
LoadFile(table, d, py_file) ==
    IF d[py_file].code.cls = None THEN table
    ELSE Put(table, TableId(d[py_file].code),
             [file |-> py_file, code |-> d[py_file].code])

\* the loop of load_custom_nodes over the files listed
RECURSIVE LoadFiles(_, _, _)
LoadFiles(files, table, d) ==
    IF files = <<>> THEN table
    ELSE LoadFiles(Tail(files), LoadFile(table, d, Head(files)), d)

\* load_custom_nodes(): the table is emptied and filled from the directory
load_custom_nodes(d, env) ==
    IF ~env.node THEN NoTable
    ELSE LoadFiles(Listing(ScannedFiles(d), env.grev), NoTable, d)

\* reload_custom_nodes()
reload_custom_nodes(d, env) == load_custom_nodes(d, env)

\* get_custom_node_class(node_id): the table after the call (an empty table
\* is loaded first)
LookupTable(table, d, env) ==
    IF table = NoTable THEN load_custom_nodes(d, env) ELSE table

(* ------------------------------------------------------------------ *)
(* The state machine                                                    *)
(* ------------------------------------------------------------------ *)

VARIABLES
    dir,            \* the managed directory: file name -> [code, mtime]
    registry_file,  \* registry.json
    node,           \* stream_workflow is installed (Node is not None)
    steps,          \* operations so far; the wall clock
    last,           \* the last operation: arguments, outcome, and the
                    \* file system before it and after its load_registry()
    _loaded_nodes,  \* the loaded plugin table
    custom_nodes_module,
                    \* sys.modules holds a module named "custom_nodes"
    inflight        \* calls that have begun and not yet returned

vars == <<dir, registry_file, node, steps, last, _loaded_nodes,
          custom_nodes_module, inflight>>

FileNames == { PyFile(i) : i \in Ids }

\* parameter definitions a caller submits: repr(schema) is a quoted type
\* name or a dict literal
ParamPairs ==
    { [inputs |-> <<>>, outputs |-> << [schema |-> <<SQ, OC, SQ>>] >>],
      [inputs |-> << [schema |-> <<LB, SQ, OC, SQ, OC, SQ, OC, SQ, RB>>] >>,
       outputs |-> <<>>] }

\* directories a user may hand to the service: any files, written before
\* the service first runs
InitDirs ==
    UNION { [D -> { [code |-> c, mtime |-> 0] : c \in MarkedCodes }] :
            D \in SUBSET FileNames }

\* glob() and set iteration both list in one of two directions
Envs ==
    { [node |-> node, now |-> steps + 1, grev |-> r, srev |-> r, lim |-> l] :
        r \in BOOLEAN, l \in {RecursionLimit - 1, RecursionLimit} }

Fs == [dir |-> dir, rf |-> registry_file]

NoOutcome(fs) ==
    [result |-> "ok", fs |-> fs, loaded |-> <<>>, mid |-> fs, changed |-> FALSE,
     cut |-> FALSE, entry |-> NoEntry, listed |-> <<>>]

Summary(l) ==
    [op |-> l.op, id |-> l.id, code |-> l.code, result |-> l.result,
     loaded |-> l.loaded]

\* no call is under way
Idle == [kind |-> "idle"]

\* the state after an operation with outcome out
Recorded(op, id, code, out) ==
    /\ dir' = out.fs.dir
    /\ registry_file' = out.fs.rf
    /\ steps' = steps + 1
    /\ node' = node
    /\ last' = [op |-> op, id |-> id, code |-> code, result |-> out.result,
                pre |-> Fs, mid |-> out.mid, loaded |-> out.loaded,
                changed |-> out.changed, cut |-> out.cut, entry |-> out.entry,
                listed |-> out.listed, prev |-> Summary(last)]
    /\ UNCHANGED <<custom_nodes_module, inflight>>

\* an operation that does not touch the plugin table
Finish(op, id, code, out) ==
    /\ Recorded(op, id, code, out)
    /\ _loaded_nodes' = _loaded_nodes

\* lines 476-483, 549-556 and 807-814: an operation that ends with
\* sys.modules.get("custom_nodes") and, when that module is found,
\* reload_custom_nodes(); a raised error skips it
FinishReload(op, id, code, out, env) ==
    /\ Recorded(op, id, code, out)
    /\ _loaded_nodes' = IF out.result = "ok" /\ custom_nodes_module
                        THEN reload_custom_nodes(out.fs.dir, env)
                        ELSE _loaded_nodes

\* bodies of a parameter block: every text of up to MaxBody characters the
\* scan tells apart
BodyChars == {LB, RB, DQ, SQ, BS}

Bodies == UNION { [1..n -> BodyChars] : n \in 0..MaxBody }

\* what follows the input block: the rest of the class, with or without an
\* output block
Tails ==
    { <<NL, SP, OC>>,
      <<NL, SP, OUT_CMT, SP, OUT_HDR, NL, SP, RB, NL, SP, OC>> }

\* source texts an author may have written
ParamTexts ==
    { <<OC, NL, SP, IN_CMT, SP, IN_HDR>> \o b \o <<RB>> \o t :
        b \in Bodies, t \in Tails }
    \cup {BareText}

\* nothing has been called yet
NoLast(fs) ==
    [op |-> "init", id |-> None, code |-> NoCode, result |-> "ok",
     pre |-> fs, mid |-> fs, loaded |-> <<>>, changed |-> FALSE, cut |-> FALSE,
     entry |-> NoEntry, listed |-> <<>>,
     prev |-> [op |-> "init", id |-> None, code |-> NoCode, result |-> "ok",
               loaded |-> <<>>]]

Init ==
    /\ dir \in InitDirs
    /\ registry_file = AbsentFile
    /\ node \in BOOLEAN
    /\ steps = 0
    /\ last = NoLast(Fs)
    /\ _loaded_nodes = NoTable
    /\ custom_nodes_module = FALSE
    /\ inflight = Idle

\* a file is added or edited outside the service
ExternalWrite ==
    /\ steps < MaxSteps
    /\ \E f \in FileNames, c \in Codes :
          Finish("ext_write", f, c,
                 NoOutcome([Fs EXCEPT !.dir = WriteFile(dir, f, c, steps + 1)]))

\* a file is removed outside the service
ExternalDelete ==
    /\ steps < MaxSteps
    /\ \E f \in DOMAIN dir :
          Finish("ext_delete", f, NoCode, NoOutcome([Fs EXCEPT !.dir = Unlink(dir, f)]))

\* registry.json is overwritten outside the service with text that is not
\* JSON
ExternalCorrupt ==
    /\ steps < MaxSteps
    /\ registry_file.state # "corrupt"
    /\ Finish("ext_corrupt", None, NoCode, NoOutcome([Fs EXCEPT !.rf = CorruptFile]))

Create ==
    /\ steps < MaxSteps
    /\ \E node_id \in Ids, c \in Codes, env \in Envs :
          FinishReload("create", node_id, c,
                       create_custom_node(node_id, c, Fs, env), env)

UpdateCode ==
    /\ steps < MaxSteps
    /\ \E node_id \in Ids, c \in Codes, env \in Envs :
          FinishReload("update_code", node_id, c,
                       update_custom_node(node_id, c, Fs, env), env)

UpdateParameters ==
    /\ steps < MaxSteps
    /\ \E node_id \in Ids, p \in ParamPairs, env \in Envs :
          FinishReload("update_parameters", node_id, NoCode,
                       update_custom_node_parameters(node_id, p.inputs, p.outputs,
                                                     Fs, env),
                       env)

Delete ==
    /\ steps < MaxSteps
    /\ \E node_id \in Ids, env \in Envs :
          Finish("delete", node_id, NoCode, delete_custom_node(node_id, Fs, env))

List ==
    /\ steps < MaxSteps
    /\ \E env \in Envs :
          Finish("list", None, NoCode, list_custom_nodes(Fs, env))

Load ==
    /\ steps < MaxSteps
    /\ \E env \in Envs :
          Finish("load", None, NoCode, load_only(Fs, env))

Next ==
    \/ ExternalWrite
    \/ ExternalDelete
    \/ ExternalCorrupt
    \/ Create
    \/ UpdateCode
    \/ UpdateParameters
    \/ Delete
    \/ List
    \/ Load

Spec == Init /\ [][Next]_vars

(* ------------------------------------------------------------------ *)
(* Properties                                                           *)
(* ------------------------------------------------------------------ *)

Count(nodes, id) == Cardinality({ i \in 1..Len(nodes) : nodes[i].id = id })

UniqueIds(nodes) ==
    \A i, j \in 1..Len(nodes) : nodes[i].id = nodes[j].id => i = j

\* C1: after any sequence of service calls and external edits, the registry
\* returned by load_registry and the persisted registry.json hold at most one
\* entry per id.
C1_OneEntryPerId ==
    UniqueIds(registry_file.nodes) /\ UniqueIds(last.loaded)

\* C2: two load_registry calls in a row with no file system change between
\* them: the second reports changed = false and returns the registry the
\* first returned.
C2_ReconcileIdempotent ==
    (last.op = "load" /\ last.prev.op = "load")
        => (~last.changed /\ last.loaded = last.prev.loaded)

\* the entries of the registry before the listing whose file was edited
\* outside the service to declare another id (newer mtime, file still under
\* the entry's own name, no file under the new name yet)
EditedEntries(fs) ==
    { i \in 1..Len(fs.rf.nodes) :
        LET e == fs.rf.nodes[i]
        IN  /\ fs.rf.state = "ok"
            /\ e.pythonFile = PyFile(e.id)
            /\ Exists(fs.dir, e.pythonFile)
            /\ fs.dir[e.pythonFile].mtime > e.mtime
            /\ MarkerOf(fs.dir[e.pythonFile].code) \notin {None, e.id}
            /\ ~Exists(fs.dir, PyFile(MarkerOf(fs.dir[e.pythonFile].code))) }

\* C3: a registered file edited outside the service so that it declares B
\* instead of A, with a newer mtime: after the next list() the entry is keyed
\* B, the file is B.py and sourceFile names B.py, if no other entry had id B;
\* otherwise the entry keeps id A.
C3_ListFollowsExternalRename ==
    last.op = "list" =>
        \A i \in EditedEntries(last.pre) :
            LET A == last.pre.rf.nodes[i].id
                B == MarkerOf(last.pre.dir[PyFile(A)].code)
            IN  IF ~HasId(last.pre.rf.nodes, B)
                THEN /\ \E j \in 1..Len(registry_file.nodes) :
                          /\ registry_file.nodes[j].id = B
                          /\ registry_file.nodes[j].pythonFile = PyFile(B)
                     /\ Exists(dir, PyFile(B))
                     /\ ~Exists(dir, PyFile(A))
                ELSE HasId(registry_file.nodes, A)

\* C4: load_registry terminates for every registry and directory: the chain
\* load_registry -> _check_and_update_registry -> _update_node_entry ->
\* load_registry never runs into the recursion limit.
C4_RecursionBounded ==
    ~last.cut

\* C5: create(requestedId, code) where the code declares D # requestedId and
\* the registry has no entry requestedId or D: exactly one new entry, keyed D,
\* with sourceFile D.py; D.py holds the submitted code; no requestedId.py.
C5_CreateUsesDeclaredId ==
    (/\ last.op = "create"
     /\ MarkerOf(last.code) \notin {None, last.id}
     /\ ~HasId(last.loaded, last.id)
     /\ ~HasId(last.loaded, MarkerOf(last.code)))
    => LET D == MarkerOf(last.code)
       IN  /\ last.result = "ok"
           /\ Len(registry_file.nodes) = Len(last.loaded) + 1
           /\ SubSeq(registry_file.nodes, 1, Len(last.loaded)) = last.loaded
           /\ registry_file.nodes[Len(registry_file.nodes)].id = D
           /\ registry_file.nodes[Len(registry_file.nodes)].pythonFile = PyFile(D)
           /\ Exists(dir, PyFile(D))
           /\ dir[PyFile(D)].code = last.code
           /\ ~Exists(dir, PyFile(last.id))

C5_Witness ==
    /\ last.op = "create"
    /\ MarkerOf(last.code) \notin {None, last.id}
    /\ ~HasId(last.loaded, last.id)
    /\ ~HasId(last.loaded, MarkerOf(last.code))
    /\ last.result = "ok"
    /\ Exists(last.pre.dir, PyFile(last.id))

\* C6: two create calls in a row whose code resolves to the same canonical
\* identifier, whatever the requested ids: the second fails with DuplicateId
\* and the registry holds exactly one entry for that identifier.
C6_SecondCreateFails ==
    (/\ last.op = "create" /\ last.prev.op = "create" /\ last.prev.result = "ok"
     /\ ExtractFromCode(last.code, node) # None
     /\ ExtractFromCode(last.prev.code, node) = ExtractFromCode(last.code, node))
    => /\ last.result = "DuplicateId"
       /\ Count(registry_file.nodes, ExtractFromCode(last.code, node)) = 1

\* the files of a directory whose code resolves to id: by its registration
\* marker, by the id stamped on its class, or by its class name
FilesResolvingTo(d, id) ==
    { f \in DOMAIN d : \/ MarkerOf(d[f].code) = id
                       \/ d[f].code.stamped = id
                       \/ (d[f].code.cls # None /\ InferredId(d[f].code.cls) = id) }

\* C7 as stated: delete(id) without an entry fails with NotFound and removes
\* nothing; with an entry it removes the entry and its backing file, and a
\* subsequent list() contains no node with that id.
C7_DeleteAsStated ==
    /\ (last.op = "delete" /\ ~HasId(last.loaded, last.id))
            => (last.result = "NotFound" /\ Fs = last.mid)
    /\ (last.op = "delete" /\ HasId(last.loaded, last.id))
            => /\ last.result = "ok"
               /\ registry_file.nodes =
                      RemoveIndices(last.loaded, {FirstWithId(last.loaded, last.id)})
               /\ ~Exists(dir, last.entry.pythonFile)
    /\ (last.op = "list" /\ last.prev.op = "delete" /\ last.prev.result = "ok")
            => \A k \in 1..Len(last.listed) : last.listed[k].id # last.prev.id

\* C7, amended: delete(id) without an entry fails with NotFound and removes
\* nothing; with an entry it removes the first entry with that id and that
\* entry's backing file and nothing else; a subsequent list() contains no node
\* with that id provided no remaining entry has the id and no remaining file
\* resolves to it.
C7_Delete ==
    /\ (last.op = "delete" /\ ~HasId(last.loaded, last.id))
            => (last.result = "NotFound" /\ Fs = last.mid)
    /\ (last.op = "delete" /\ HasId(last.loaded, last.id))
            => /\ last.result = "ok"
               /\ registry_file.state = "ok"
               /\ registry_file.nodes =
                      RemoveIndices(last.loaded, {FirstWithId(last.loaded, last.id)})
               /\ last.entry = last.loaded[FirstWithId(last.loaded, last.id)]
               /\ ~Exists(dir, last.entry.pythonFile)
               /\ \A f \in DOMAIN last.mid.dir :
                      f # last.entry.pythonFile
                          => (Exists(dir, f) /\ dir[f] = last.mid.dir[f])
    /\ (/\ last.op = "list" /\ last.prev.op = "delete" /\ last.prev.result = "ok"
        /\ ~HasId(last.pre.rf.nodes, last.prev.id)
        /\ FilesResolvingTo(last.pre.dir, last.prev.id) = {})
            => \A k \in 1..Len(last.listed) : last.listed[k].id # last.prev.id

C7_Witness ==
    /\ last.op = "list" /\ last.prev.op = "delete" /\ last.prev.result = "ok"
    /\ ~HasId(last.pre.rf.nodes, last.prev.id)
    /\ FilesResolvingTo(last.pre.dir, last.prev.id) = {}
    /\ last.listed # <<>>

\* Python's reading of the text from position i on, depth braces open:
\* inside a string literal a backslash takes the next character with it, and
\* the literal ends at the next quote of its kind; the result is the position
\* of the brace that closes the outermost open brace (0: there is none)
RECURSIVE ClosingBrace(_, _, _, _, _)
ClosingBrace(code, i, depth, quote, escaped) ==
    IF i > Len(code) THEN 0
    ELSE LET char == code[i]
         IN  IF quote # ""
             THEN IF escaped THEN ClosingBrace(code, i + 1, depth, quote, FALSE)
                  ELSE IF char = BS THEN ClosingBrace(code, i + 1, depth, quote, TRUE)
                  ELSE IF char = quote THEN ClosingBrace(code, i + 1, depth, "", FALSE)
                  ELSE ClosingBrace(code, i + 1, depth, quote, FALSE)
             ELSE IF char \in {DQ, SQ} THEN ClosingBrace(code, i + 1, depth, char, FALSE)
             ELSE IF char \in {LB, IN_HDR, OUT_HDR}
                  THEN ClosingBrace(code, i + 1, depth + 1, "", FALSE)
             ELSE IF char = RB
                  THEN IF depth = 1 THEN i
                       ELSE ClosingBrace(code, i + 1, depth - 1, "", FALSE)
             ELSE ClosingBrace(code, i + 1, depth, "", FALSE)

\* the end of the block whose header is the first hdr of the text (0: the
\* text has no such block, or the block is never closed)
BlockEnd(code, hdr) ==
    IF FindHeader(code, hdr) = 0 THEN 0
    ELSE ClosingBrace(code, FindHeader(code, hdr) + 1, 1, "", FALSE)

\* the first position of the block: its comment line if it has one, else
\* its header
BlockStart(code, hdr, cmt) ==
    LET h == FindHeader(code, hdr)
        p == BackWS(code, h)
    IN  IF p > 1 /\ code[p - 1] = cmt THEN p - 1 ELSE h

\* the block the service writes for the parameters params
WrittenBlock(hdr, cmt, params) ==
    <<SP, cmt, SP, hdr, NL>> \o JoinParams(params) \o <<NL, SP, RB>>

\* the last call was update_custom_node_parameters on a registered node
\* whose file exists
ParamsUpdated ==
    /\ last.op = "update_parameters"
    /\ HasId(last.loaded, last.id)
    /\ Exists(last.mid.dir, last.loaded[FirstWithId(last.loaded, last.id)].pythonFile)

TargetFile == last.loaded[FirstWithId(last.loaded, last.id)].pythonFile

OldText == last.mid.dir[TargetFile].code.text

NewText == dir[TargetFile].code.text

\* C8: the scan for the end of a parameter block does not count braces inside
\* quoted strings: for a file with a well-formed INPUT_PARAMS block (and no
\* OUTPUT_PARAMS block) the rewritten file is the text before the block, the
\* new block, and everything after the brace that closes the block.
C8_QuotedBracesNotCounted ==
    (/\ ParamsUpdated
     /\ BlockEnd(OldText, IN_HDR) # 0
     /\ FindHeader(OldText, OUT_HDR) = 0)
    => \E p \in ParamPairs :
          NewText =
             SubSeq(OldText, 1,
                    MatchStart(OldText, FindHeader(OldText, IN_HDR), IN_CMT) - 1)
             \o WrittenBlock(IN_HDR, IN_CMT, p.inputs)
             \o SubSeq(OldText, BlockEnd(OldText, IN_HDR) + 1, Len(OldText))

\* C9: when the INPUT_PARAMS or the OUTPUT_PARAMS block of the file is missing
\* or is never closed, update_custom_node_parameters reports a failure and
\* leaves the file as it was.
C9_BadBlockRejected ==
    (/\ ParamsUpdated
     /\ (BlockEnd(OldText, IN_HDR) = 0 \/ BlockEnd(OldText, OUT_HDR) = 0))
    => (last.result # "ok" /\ Exists(dir, TargetFile) /\ NewText = OldText)

\* C10: update_custom_node_parameters replaces the two parameter blocks only:
\* the text before the first block, between the blocks and after the second
\* block is in the rewritten file as it was, and the entry keeps its id and
\* its file name.
C10_OnlyBlocksReplaced ==
    (/\ ParamsUpdated
     /\ BlockEnd(OldText, IN_HDR) # 0
     /\ BlockEnd(OldText, OUT_HDR) # 0
     /\ BlockEnd(OldText, IN_HDR) < FindHeader(OldText, OUT_HDR))
    => LET A == SubSeq(OldText, 1, BlockStart(OldText, IN_HDR, IN_CMT) - 1)
           B == SubSeq(OldText, BlockEnd(OldText, IN_HDR) + 1,
                       BlockStart(OldText, OUT_HDR, OUT_CMT) - 1)
           C == SubSeq(OldText, BlockEnd(OldText, OUT_HDR) + 1, Len(OldText))
       IN  /\ last.entry.id = last.id
           /\ last.entry.pythonFile = TargetFile
           /\ HasId(registry_file.nodes, last.id)
           /\ registry_file.nodes[FirstWithId(registry_file.nodes, last.id)].pythonFile
                 = TargetFile
           /\ Len(NewText) >= Len(A) + Len(B) + Len(C)
           /\ SubSeq(NewText, 1, Len(A)) = A
           /\ SubSeq(NewText, Len(NewText) - Len(C) + 1, Len(NewText)) = C
           /\ \E k \in Len(A)..(Len(NewText) - Len(C) - Len(B)) :
                 SubSeq(NewText, k + 1, k + Len(B)) = B

\* the file the entry of last.id named when the operation loaded the registry
LoadedFile == last.loaded[FirstWithId(last.loaded, last.id)].pythonFile

\* C11: update_custom_node(id, code) where the code declares an identifier B
\* other than id, no entry B is registered and no file B.py exists, succeeds:
\* the entry is re-keyed to B and names B.py, B.py holds the code, the old
\* file is gone, and the registry file holds the change.
C11_UpdateCodeRekeys ==
    LET B == MarkerOf(last.code)
    IN  (/\ last.op = "update_code"
         /\ ~last.cut
         /\ HasId(last.loaded, last.id)
         /\ B # None /\ B # last.id
         /\ ~HasId(last.loaded, B)
         /\ ~Exists(last.mid.dir, PyFile(B)))
        => /\ last.result = "ok"
           /\ registry_file.state = "ok"
           /\ ~HasId(registry_file.nodes, last.id)
           /\ \E i \in 1..Len(registry_file.nodes) :
                 /\ registry_file.nodes[i].id = B
                 /\ registry_file.nodes[i].pythonFile = PyFile(B)
           /\ Exists(dir, PyFile(B))
           /\ dir[PyFile(B)].code = last.code
           /\ ~Exists(dir, LoadedFile)

\* C12: update_custom_node(id, code) where the code declares an identifier
\* that another registry entry already has reports DuplicateId to the caller,
\* not success.
C12_UpdateCodeDuplicateFails ==
    LET B == MarkerOf(last.code)
    IN  (/\ last.op = "update_code"
         /\ ~last.cut
         /\ HasId(last.loaded, last.id)
         /\ B # None /\ B # last.id
         /\ HasId(last.loaded, B))
        => last.result = "DuplicateId"

\* the last operation called load_registry()
CalledLoad ==
    last.op \in {"create", "update_code", "update_parameters", "delete", "list",
                 "load"}

\* entries of the registry file before the operation whose file was gone
DeletedBefore ==
    { i \in 1..Len(last.pre.rf.nodes) :
        ~Exists(last.pre.dir, last.pre.rf.nodes[i].pythonFile) }

\* C19: every registry load_registry returns names existing files only: the
\* pythonFile of each entry exists in the directory when the call returns,
\* and when an entry's file had been deleted outside the service the entry
\* was dropped and the drop reported as a change.
C19_LoadedFilesExist ==
    CalledLoad =>
       /\ \A i \in 1..Len(last.loaded) :
             Exists(last.mid.dir, last.loaded[i].pythonFile)
       /\ (last.pre.rf.state = "ok" /\ DeletedBefore # {}) => last.changed

\* the identifiers that can be derived from the files of directory d
DerivableIds(d) ==
    { ExtractFromCode(d[f].code, node) : f \in ScannedFiles(d) } \ {None}

ListedIds == { last.listed[i].id : i \in 1..Len(last.listed) }

\* C20: list_custom_nodes returns one descriptor for every entry of the
\* registry its load_registry() reconciled, and the identifiers returned are those that can be
\* derived from the files in the directory.
C20_ListMatchesDirectory ==
    last.op = "list" =>
       /\ Len(last.listed) = Len(last.loaded)
       /\ ListedIds = DerivableIds(dir)

\* the registry file was missing or unparsable when the operation began
NoUsableRegistry == last.pre.rf.state \in {"absent", "corrupt"}

\* the entries of nodes that have identifier id
EntriesWithId(nodes, id) == { i \in 1..Len(nodes) : nodes[i].id = id }

\* C18: load_registry does not fail when the registry file is missing or
\* cannot be parsed: it scans the whole directory and returns a registry with
\* one entry for every definition file whose identifier can be derived (files
\* that declare the same identifier share the one entry of that identifier),
\* and no other entry.
C18_RescanRegistersEveryFile ==
    (CalledLoad /\ NoUsableRegistry) =>
       /\ ~last.cut
       /\ \A f \in ScannedFiles(last.pre.dir) :
             LET id == ExtractFromCode(last.pre.dir[f].code, node)
             IN  id # None =>
                    \E i \in 1..Len(last.loaded) :
                       /\ EntriesWithId(last.loaded, id) = {i}
                       /\ Exists(last.pre.dir, last.loaded[i].pythonFile)
                       /\ ExtractFromCode(
                             last.pre.dir[last.loaded[i].pythonFile].code, node) = id
       /\ \A i \in 1..Len(last.loaded) :
             /\ last.loaded[i].pythonFile \in ScannedFiles(last.pre.dir)
             /\ ExtractFromCode(last.pre.dir[last.loaded[i].pythonFile].code, node)
                   = last.loaded[i].id

\* C28: create registers the node under the identifier that
\* _extract_node_id_from_file derives from the file it has written (marker,
\* then stamped attribute, then class name).
C28_CreateResolvesLikeReconcile ==
    (/\ last.op = "create"
     /\ last.result = "ok"
     /\ ExtractFromCode(last.code, node) # None)
    => last.entry.id = ExtractFromCode(last.code, node)

\* C30: a create that fails with DuplicateId leaves the directory and the
\* registry as its load_registry() left them: no entry added or changed, no
\* new file, and the file of the node already registered keeps its content.
C30_FailedCreateChangesNothing ==
    (last.op = "create" /\ last.result = "DuplicateId" /\ ~last.cut)
    => Fs = last.mid

\* the entries of the registry fs.rf whose file was modified after it was
\* registered, now yields another identifier, and cannot be renamed because
\* a file already stands under the new identifier's name
BlockedRenames(fs) ==
    { i \in 1..Len(fs.rf.nodes) :
        LET e == fs.rf.nodes[i]
            B == _extract_node_id_from_file(fs.dir, e.pythonFile, [node |-> node])
        IN  /\ fs.rf.state = "ok"
            /\ Exists(fs.dir, e.pythonFile)
            /\ fs.dir[e.pythonFile].mtime > e.mtime
            /\ B \notin {None, e.id}
            /\ PyFile(B) # e.pythonFile
            /\ Exists(fs.dir, PyFile(B)) }

\* C22: reconciliation meets a modified file whose identifier is now B while
\* its entry says A, and B.py already exists: no file is renamed or
\* overwritten, and the entry keeps identifier A and its source file.
C22_BlockedRenameKeepsEntry ==
    last.op = "load" =>
        \A i \in BlockedRenames(last.pre) :
            LET e == last.pre.rf.nodes[i]
            IN  /\ dir = last.pre.dir
                /\ \E j \in 1..Len(last.loaded) :
                      /\ last.loaded[j].id = e.id
                      /\ last.loaded[j].pythonFile = e.pythonFile

\* the files of fs.dir that no entry of the registry fs.rf names and that
\* yield an identifier some entry already has
NewFilesWithKnownId(fs) ==
    { f \in ScannedFiles(fs.dir) :
        /\ fs.rf.state = "ok"
        /\ \A i \in 1..Len(fs.rf.nodes) : fs.rf.nodes[i].pythonFile # f
        /\ HasId(fs.rf.nodes,
                 _extract_node_id_from_file(fs.dir, f, [node |-> node])) }

\* C23: incremental reconciliation skips a file that no entry names when the
\* identifier it yields is already in the registry: no entry is added for
\* the file, and the directory is left as it was.
C23_KnownIdFileSkipped ==
    (last.op = "load" /\ ~last.cut) =>
        \A f \in NewFilesWithKnownId(last.pre) :
            /\ \A j \in 1..Len(last.loaded) : last.loaded[j].pythonFile # f
            /\ dir = last.pre.dir

\* the entries of the registry before the operation whose file was in the
\* directory: the ones reconciliation keeps
KeptBefore ==
    { i \in 1..Len(last.pre.rf.nodes) :
        last.pre.rf.nodes[i].pythonFile \in ScannedFiles(last.pre.dir) }

\* where the kept entry i of the registry before the operation stands in the
\* registry load_registry() returned
PlaceAfter(i) == Cardinality({ j \in KeptBefore : j <= i })

\* the file of entry e was modified after the entry was written
Newer(e) == last.pre.dir[e.pythonFile].mtime > e.mtime

\* C24: reconciliation leaves an entry whose file exists and is not newer
\* than the stored mtime exactly as it was (id, source file, mtime, createdAt,
\* updatedAt); an entry whose file is strictly newer is re-derived: its id is
\* the stored one or the one the file yields, and its stored mtime becomes the
\* file's mtime.
C24_ReDerivedIffNewer ==
    (CalledLoad /\ last.pre.rf.state = "ok") =>
        \A i \in KeptBefore :
            LET e == last.pre.rf.nodes[i]
                B == _extract_node_id_from_file(last.pre.dir, e.pythonFile,
                                                [node |-> node])
                after == last.loaded[PlaceAfter(i)]
            IN  /\ PlaceAfter(i) <= Len(last.loaded)
                /\ IF Newer(e)
                   THEN /\ after.mtime = last.pre.dir[e.pythonFile].mtime
                        /\ after.id \in {e.id, B} \ {None}
                        /\ after.createdAt = e.createdAt
                   ELSE after = e

\* a load that met one entry with a newer file, whose id it changed, and one
\* entry with a file that was not newer
C24_Witness ==
    /\ last.op = "load"
    /\ last.pre.rf.state = "ok"
    /\ \E i, k \in KeptBefore :
          /\ Newer(last.pre.rf.nodes[i])
          /\ last.loaded[PlaceAfter(i)].id # last.pre.rf.nodes[i].id
          /\ ~Newer(last.pre.rf.nodes[k])

\* the registry fs.rf can be parsed and agrees with the directory: every
\* entry's file is there and is not newer than the entry, and every file
\* that yields an id is named by an entry
Consistent(fs) ==
    /\ fs.rf.state = "ok"
    /\ \A i \in 1..Len(fs.rf.nodes) :
          /\ fs.rf.nodes[i].pythonFile \in ScannedFiles(fs.dir)
          /\ fs.dir[fs.rf.nodes[i].pythonFile].mtime <= fs.rf.nodes[i].mtime
    /\ \A f \in ScannedFiles(fs.dir) :
          \/ \E i \in 1..Len(fs.rf.nodes) : fs.rf.nodes[i].pythonFile = f
          \/ _extract_node_id_from_file(fs.dir, f, [node |-> node]) = None

\* C25: load_registry saves the registry file only when reconciliation
\* reported a change: a registry file that differs after the call was
\* reported changed, and a parsable registry that agrees with the directory
\* is returned as it is, with no change reported and the file left alone.
C25_SavedOnlyWhenChanged ==
    last.op = "load" =>
        /\ registry_file # last.pre.rf => last.changed
        /\ Consistent(last.pre) =>
              /\ ~last.changed
              /\ registry_file = last.pre.rf
              /\ last.loaded = last.pre.rf.nodes

\* a load that found a registry in agreement with a directory holding a
\* registered file and a file that yields no id
C25_Witness ==
    /\ last.op = "load"
    /\ Consistent(last.pre)
    /\ last.pre.rf.nodes # <<>>
    /\ \E f \in ScannedFiles(last.pre.dir) :
          \A i \in 1..Len(last.pre.rf.nodes) : last.pre.rf.nodes[i].pythonFile # f

\* C31: updateCode on node A touches no file but A's own source file: every
\* other file that was in the directory when the update began is still there
\* with its content, a file B.py standing under the re-derived id included.
C31_UpdateCodeTouchesOwnFile ==
    (last.op = "update_code" /\ HasId(last.loaded, last.id)) =>
        \A f \in DOMAIN last.mid.dir :
            f # last.loaded[FirstWithId(last.loaded, last.id)].pythonFile
               => (Exists(dir, f) /\ dir[f] = last.mid.dir[f])

\* the service operations that write
ServiceWrites == {"create", "update_code", "update_parameters", "delete"}

\* C32: after a successful create, updateCode, updateParametersOnly or
\* delete the registry agrees with the directory: a reconciliation run next,
\* with no outside change in between, reports no change and still holds the
\* entry the operation wrote, under the same id and source file.
C32_WritesLeaveRegistryInSync ==
    (last.op \in ServiceWrites /\ last.result = "ok") =>
        \A env \in Envs :
            /\ ~load_registry(Fs, env, 0).changed
            /\ last.op # "delete" =>
                  \E j \in 1..Len(load_registry(Fs, env, 0).nodes) :
                     /\ load_registry(Fs, env, 0).nodes[j].id = last.entry.id
                     /\ load_registry(Fs, env, 0).nodes[j].pythonFile
                           = last.entry.pythonFile

\* entry by entry, the registry after has the createdAt of the registry
\* before
SameCreatedAt(before, after) ==
    /\ Len(after) = Len(before)
    /\ \A i \in 1..Len(before) : after[i].createdAt = before[i].createdAt

\* C33: an entry keeps its createdAt for as long as it exists: the
\* reconciliation of a modified file (a re-key to a new id included),
\* updateCode, updateParametersOnly and list leave the createdAt of every
\* entry as it was, and updateCode and updateParametersOnly leave every entry
\* but their own untouched.  A list that leaves as many entries as it loaded
\* has dropped none and added none, so it is compared entry by entry.
C33_CreatedAtKept ==
    /\ (CalledLoad /\ last.pre.rf.state = "ok") =>
          \A i \in KeptBefore :
              /\ PlaceAfter(i) <= Len(last.loaded)
              /\ last.loaded[PlaceAfter(i)].createdAt
                    = last.pre.rf.nodes[i].createdAt
    /\ (last.op \in {"update_code", "update_parameters"} /\ last.result = "ok")
          => SameCreatedAt(last.loaded, registry_file.nodes)
    /\ (last.op = "list" /\ Len(registry_file.nodes) = Len(last.loaded))
          => SameCreatedAt(last.loaded, registry_file.nodes)
    /\ (last.op \in {"update_code", "update_parameters"} /\ last.result = "ok") =>
          \A i \in 1..Len(last.loaded) :
              i # FirstWithId(last.loaded, last.id)
                 => registry_file.nodes[i] = last.loaded[i]

\* C34: updateCode, updateParametersOnly and delete on an id that no entry
\* of the loaded registry has report NotFound and leave the directory and
\* the registry as their load_registry() left them; reading the metadata of
\* such an id gives nothing and writes nothing either.
C34_UnknownIdNotFound ==
    /\ (last.op \in {"update_code", "update_parameters", "delete"}
          /\ ~HasId(last.loaded, last.id))
          => (last.result = "NotFound" /\ Fs = last.mid)
    /\ \A id \in Ids, env \in Envs :
          ~HasId(load_registry(Fs, env, 0).nodes, id)
             => /\ get_custom_node_metadata(id, Fs, env).metadata = NoMetadata
                /\ env.node => get_custom_node_metadata(id, Fs, env).fs
                                  = load_registry(Fs, env, 0).fs

\* an update of an id that is not in a registry holding another node
C34_Witness ==
    /\ last.op \in {"update_code", "update_parameters", "delete"}
    /\ ~HasId(last.loaded, last.id)
    /\ last.loaded # <<>>
    /\ last.result = "NotFound"

\* A registered node a.py whose source an author wrote by hand, and calls of
\* update_custom_node_parameters on it.
InitParams ==
    /\ \E t \in ParamTexts :
          dir = [f \in {PyFile(<<"a">>)} |->
                    [code |-> Code(<<"a">>, <<"a">>, <<"X">>, t), mtime |-> 0]]
    /\ registry_file =
          [state |-> "ok", nodes |-> << NewEntry(<<"a">>, PyFile(<<"a">>), 0, 0) >>]
    /\ node \in BOOLEAN
    /\ steps = 0
    /\ last = NoLast(Fs)
    /\ _loaded_nodes = NoTable
    /\ custom_nodes_module = FALSE
    /\ inflight = Idle

NextParams == UpdateParameters

SpecParams == InitParams /\ [][NextParams]_vars

\* get_custom_node_class(node_id) is called
Lookup ==
    /\ steps < MaxSteps
    /\ \E node_id \in Ids, env \in Envs :
          /\ Recorded("lookup", node_id, NoCode, NoOutcome(Fs))
          /\ _loaded_nodes' = LookupTable(_loaded_nodes, dir, env)

\* An empty managed directory, in a process that may or may not have a
\* module registered under the name the service looks up, and every
\* operation of the service together with lookups in the plugin table.
InitReload ==
    /\ dir = << >>
    /\ registry_file = AbsentFile
    /\ node \in BOOLEAN
    /\ steps = 0
    /\ last = NoLast(Fs)
    /\ _loaded_nodes = NoTable
    /\ custom_nodes_module \in BOOLEAN
    /\ inflight = Idle

NextReload ==
    \/ Next
    \/ Lookup

SpecReload == InitReload /\ [][NextReload]_vars

\* the tables a rebuild from the present directory can give
RebuiltTables ==
    { load_custom_nodes(dir, [node |-> node, grev |-> r]) : r \in BOOLEAN }

\* C15: every successful create, update of code, update of parameters and
\* delete ends with a hot reload: when the operation returns, the plugin
\* table is the one rebuilt from the directory as the operation left it.
C15_ReloadAfterWrite ==
    (/\ last.op \in {"create", "update_code", "update_parameters", "delete"}
     /\ last.result = "ok")
    => _loaded_nodes \in RebuiltTables

(* ------------------------------------------------------------------ *)
(* A hot reload in one thread and lookups in another                    *)
(* ------------------------------------------------------------------ *)

\* no lookup has been made
NoSeen ==
    [node_id |-> None, got |-> NoClass, during |-> FALSE, before |-> NoTable]

\* a reload: whether load_custom_nodes is inside its loop, the files it has
\* still to load, the table before it began, and what the last lookup saw
Reload(reloading, pending, before, seen) ==
    [kind |-> "reload", reloading |-> reloading, pending |-> pending,
     before |-> before, seen |-> seen]

\* directories of node files: any files, each with a class or without
TableDirs ==
    UNION { [D -> { [code |-> c, mtime |-> 0] : c \in Codes }] :
            D \in SUBSET FileNames }

\* lines 117-125: the table when the module has been imported, loaded at
\* import or still empty
InitTable ==
    /\ dir \in TableDirs
    /\ registry_file = AbsentFile
    /\ node \in BOOLEAN
    /\ steps = 0
    /\ last = NoLast(Fs)
    /\ \E r \in BOOLEAN :
          _loaded_nodes \in {NoTable, load_custom_nodes(dir, [node |-> node, grev |-> r])}
    /\ custom_nodes_module = TRUE
    /\ inflight = Reload(FALSE, <<>>, NoTable, NoSeen)

\* lines 112-113 and 37-54: reload_custom_nodes() empties the table and
\* load_custom_nodes() reaches its loop
ReloadBegin ==
    /\ ~inflight.reloading
    /\ \E r \in BOOLEAN :
          LET files == IF node THEN Listing(ScannedFiles(dir), r) ELSE <<>>
          IN  inflight' = Reload(files # <<>>, files, _loaded_nodes, inflight.seen)
    /\ _loaded_nodes' = NoTable
    /\ UNCHANGED <<dir, registry_file, node, steps, last, custom_nodes_module>>

\* lines 55-98: one turn of the loop of load_custom_nodes
ReloadFile ==
    /\ inflight.reloading
    /\ _loaded_nodes' = LoadFile(_loaded_nodes, dir, Head(inflight.pending))
    /\ inflight' = [inflight EXCEPT !.pending = Tail(@),
                                    !.reloading = Tail(inflight.pending) # <<>>]
    /\ UNCHANGED <<dir, registry_file, node, steps, last, custom_nodes_module>>

\* lines 103-107: another thread calls get_custom_node_class(node_id)
ConcurrentLookup ==
    \E node_id \in Ids, env \in Envs :
       LET table == LookupTable(_loaded_nodes, dir, env)
       IN  /\ _loaded_nodes' = table
           /\ inflight' = [inflight EXCEPT
                             !.seen = [node_id |-> node_id,
                                       got |-> Get(table, node_id),
                                       during |-> inflight.reloading,
                                       before |-> inflight.before]]
           /\ UNCHANGED <<dir, registry_file, node, steps, last, custom_nodes_module>>

NextTable ==
    \/ ReloadBegin
    \/ ReloadFile
    \/ ConcurrentLookup

SpecTable == InitTable /\ [][NextTable]_vars

\* C16: a lookup made while a hot reload rebuilds the plugin table does not
\* see a partly rebuilt table: what get_custom_node_class returns is what the
\* complete table before the reload, or a complete table rebuilt from the
\* directory, holds for the id.
C16_NoPartialTable ==
    (inflight.kind = "reload" /\ inflight.seen.during)
    => inflight.seen.got \in
          {Get(inflight.seen.before, inflight.seen.node_id)}
          \cup { Get(t, inflight.seen.node_id) : t \in RebuiltTables }

(* ------------------------------------------------------------------ *)
(* Two callers of the service on one managed directory.  The service    *)
(* takes no lock and keeps the registry it loaded in memory, so a call  *)
(* is two steps on the file system: its load_registry(), and the rest   *)
(* of its body up to save_registry().                                   *)
(* ------------------------------------------------------------------ *)

Callers == {1, 2}

\* the operations the callers invoke
ConcOps ==
    { [op |-> "create", id |-> i, code |-> Code(i, i, <<"X">>, PlainText)] :
        i \in Ids }
    \cup { [op |-> "delete", id |-> i, code |-> NoCode] : i \in Ids }
    \cup { [op |-> "list", id |-> None, code |-> NoCode] }

NoOp == [op |-> "none", id |-> None, code |-> NoCode]

\* a call that has not begun
NoCall ==
    [pc |-> "idle", o |-> NoOp, nodes |-> <<>>, cut |-> FALSE, changed |-> FALSE,
     result |-> "ok"]

Calls(start, call) == [kind |-> "calls", start |-> start, call |-> call]

ConcEnv(now) ==
    [node |-> node, now |-> now, grev |-> FALSE, srev |-> FALSE,
     lim |-> RecursionLimit]

\* the file system a first load_registry() leaves for directory d
Loaded(d) == load_registry([dir |-> d, rf |-> AbsentFile], ConcEnv(0), 0).fs

InitConc ==
    /\ node = TRUE
    /\ \E d \in InitDirs : /\ dir = Loaded(d).dir
                           /\ registry_file = Loaded(d).rf
    /\ steps = 0
    /\ last = NoLast(Fs)
    /\ _loaded_nodes = NoTable
    /\ custom_nodes_module = FALSE
    /\ inflight = Calls(Fs, [p \in Callers |-> NoCall])

\* the call of p has loaded the registry: L is what load_registry() returned
BeginLoaded(p, o, L) ==
    /\ dir' = L.fs.dir
    /\ registry_file' = L.fs.rf
    /\ inflight' = [inflight EXCEPT
                      !.call[p] = [pc |-> "loaded", o |-> o, nodes |-> L.nodes,
                                   cut |-> L.cut, changed |-> L.changed,
                                   result |-> "ok"]]

\* caller p enters an operation: lines 382, 829 and 857, registry =
\* load_registry()
Begin(p) ==
    /\ inflight.call[p].pc = "idle"
    /\ \E o \in ConcOps : BeginLoaded(p, o, load_registry(Fs, ConcEnv(steps + 1), 0))
    /\ steps' = steps + 1
    /\ UNCHANGED <<node, last, _loaded_nodes, custom_nodes_module>>

\* the body of operation o after its load_registry() returned L
Body(o, L, env) ==
    CASE o.op = "create" -> CreateLoaded(o.id, o.code, L, env)
      [] o.op = "delete" -> DeleteLoaded(o.id, L)
      [] OTHER -> ListLoaded(L, env)

\* the call of p has returned with outcome out
CompleteWith(p, out) ==
    /\ dir' = out.fs.dir
    /\ registry_file' = out.fs.rf
    /\ inflight' = [inflight EXCEPT !.call[p].pc = "done",
                                    !.call[p].result = out.result]

\* caller p runs the rest of its operation: the registry is the one it
\* loaded, the files are those now on disk
Complete(p) ==
    /\ inflight.call[p].pc = "loaded"
    /\ CompleteWith(p, Body(inflight.call[p].o,
                            [raised |-> FALSE, cut |-> inflight.call[p].cut,
                             nodes |-> inflight.call[p].nodes,
                             changed |-> inflight.call[p].changed, fs |-> Fs],
                            ConcEnv(steps + 1)))
    /\ steps' = steps + 1
    /\ UNCHANGED <<node, last, _loaded_nodes, custom_nodes_module>>

NextConc ==
    \E p \in Callers :
       \/ Begin(p)
       \/ Complete(p)

SpecConc == InitConc /\ [][NextConc]_vars

\* C13: mutating operations on one directory exclude each other: two calls
\* are never both between their load_registry() and their save_registry().
C13_MutualExclusion ==
    inflight.kind = "calls"
    => ~(\A p \in Callers : inflight.call[p].pc = "loaded")

\* operation o run alone, from its load_registry() to its return
RunAlone(o, fs, env) == Body(o, load_registry(fs, env, 0), env).fs

\* what a file system holds, timestamps aside
Shape(fs) ==
    [files |-> { <<f, fs.dir[f].code>> : f \in DOMAIN fs.dir },
     state |-> fs.rf.state,
     entries |-> { <<fs.rf.nodes[i].id, fs.rf.nodes[i].pythonFile>> :
                     i \in 1..Len(fs.rf.nodes) }]

\* the file systems the two calls leave when one runs after the other
SerialOutcomes ==
    { Shape(RunAlone(inflight.call[q].o,
                     RunAlone(inflight.call[p].o, inflight.start, ConcEnv(1)),
                     ConcEnv(2))) :
        <<p, q>> \in {<<1, 2>>, <<2, 1>>} }

\* C14: two operations invoked concurrently leave the registry file and the
\* directory that running them one after the other, in one of the two
\* orders, leaves; no completed update of the registry is lost.
C14_Serializable ==
    (inflight.kind = "calls" /\ \A p \in Callers : inflight.call[p].pc = "done")
    => Shape(Fs) \in SerialOutcomes

(* ------------------------------------------------------------------ *)
(* A write operation whose process may stop at any point.  Each file    *)
(* is written with open(path, 'w'), which empties it, followed by       *)
(* write() or json.dump(); the registry is saved last.                  *)
(* ------------------------------------------------------------------ *)

\* the operations that write a source file
WriteOps ==
    { [op |-> k, id |-> i, code |-> c] :
        k \in {"create", "update_code"}, i \in Ids, c \in MarkedCodes }
    \cup { [op |-> "update_parameters", id |-> i, code |-> NoCode] : i \in Ids }

\* a file open(path, 'w') has just emptied
EmptyCode == Code(None, None, None, <<>>)

\* lines 390-394, 507-513 and 688-798: the source file the operation opens
\* for writing, None when it returns before that
SourceTarget(o, nodes, d) ==
    LET k == FirstWithId(nodes, o.id)
    IN  IF o.op = "create"
        THEN IF HasId(nodes, o.id) THEN None ELSE PyFile(o.id)
        ELSE IF k = 0 THEN None
        ELSE IF o.op = "update_parameters" /\ ~Exists(d, nodes[k].pythonFile)
        THEN None
        ELSE nodes[k].pythonFile

\* the parameter definitions submitted
SomeParams == CHOOSE p \in ParamPairs : p.inputs = <<>>

\* the body of write operation o after its load_registry() returned L
WriteBody(o, L, env) ==
    CASE o.op = "create" -> CreateLoaded(o.id, o.code, L, env)
      [] o.op = "update_code" -> UpdateLoaded(o.id, o.code, L, env)
      [] OTHER -> ParametersLoaded(o.id, SomeParams.inputs, SomeParams.outputs,
                                   L, env)

Writing(pc, crashed, o, target, before, after) ==
    [kind |-> "write", pc |-> pc, crashed |-> crashed, o |-> o,
     target |-> target, before |-> before, after |-> after]

InitCrash ==
    /\ node = TRUE
    /\ \E d \in InitDirs : /\ dir = Loaded(d).dir
                           /\ registry_file = Loaded(d).rf
    /\ steps = 0
    /\ last = NoLast(Fs)
    /\ _loaded_nodes = NoTable
    /\ custom_nodes_module = FALSE
    /\ inflight = Writing("idle", FALSE, NoOp, None, Fs,
                          [result |-> "ok", fs |-> Fs])

\* the operation has loaded the registry (L) and opened its source file;
\* out is the outcome it reaches when nothing stops it
SourceOpened(o, L, target, out) ==
    /\ target # None
    /\ dir' = WriteFile(L.fs.dir, target, EmptyCode, steps + 1)
    /\ registry_file' = L.fs.rf
    /\ inflight' = Writing("source_open", FALSE, o, target, L.fs,
                           [result |-> out.result, fs |-> out.fs])

\* lines 382-394, 497-513 and 674-798: load_registry(), then
\* open(python_path, 'w')
OpenSource ==
    /\ inflight.pc = "idle"
    /\ \E o \in WriteOps :
          SourceOpened(o, load_registry(Fs, ConcEnv(steps + 1), 0),
                       SourceTarget(o, load_registry(Fs, ConcEnv(steps + 1), 0).nodes,
                                    load_registry(Fs, ConcEnv(steps + 1), 0).fs.dir),
                       WriteBody(o, load_registry(Fs, ConcEnv(steps + 1), 0),
                                 ConcEnv(steps + 1)))
    /\ steps' = steps + 1
    /\ UNCHANGED <<node, last, _loaded_nodes, custom_nodes_module>>

\* the text the operation writes into its source file
NewSource ==
    IF inflight.o.op = "update_parameters"
    THEN inflight.after.fs.dir[inflight.target].code
    ELSE inflight.o.code

\* lines 395, 514 and 799: f.write(python_code) and the file is closed
WriteSource ==
    /\ inflight.pc = "source_open"
    /\ ~inflight.crashed
    /\ dir' = WriteFile(dir, inflight.target, NewSource, steps)
    /\ inflight' = [inflight EXCEPT !.pc = "source_written"]
    /\ UNCHANGED <<registry_file, node, steps, last, _loaded_nodes,
                   custom_nodes_module>>

\* lines 396-473, 515-546 and 800-805, up to open(registry_file, 'w') at
\* line 76: the file is moved to its final name when the id asks for it,
\* and the registry file is emptied; an operation that raises before
\* save_registry() ends here
OpenRegistry ==
    /\ inflight.pc = "source_written"
    /\ ~inflight.crashed
    /\ dir' = inflight.after.fs.dir
    /\ registry_file' = IF inflight.after.result = "ok" THEN CorruptFile
                        ELSE registry_file
    /\ inflight' = [inflight EXCEPT
                      !.pc = IF inflight.after.result = "ok" THEN "registry_open"
                             ELSE "done"]
    /\ UNCHANGED <<node, steps, last, _loaded_nodes, custom_nodes_module>>

\* line 77: json.dump(registry, f) and the file is closed
WriteRegistry ==
    /\ inflight.pc = "registry_open"
    /\ ~inflight.crashed
    /\ registry_file' = inflight.after.fs.rf
    /\ inflight' = [inflight EXCEPT !.pc = "done"]
    /\ UNCHANGED <<dir, node, steps, last, _loaded_nodes, custom_nodes_module>>

\* the process stops while the operation is under way
Crash ==
    /\ inflight.pc \in {"source_open", "source_written", "registry_open"}
    /\ ~inflight.crashed
    /\ inflight' = [inflight EXCEPT !.crashed = TRUE]
    /\ UNCHANGED <<dir, registry_file, node, steps, last, _loaded_nodes,
                   custom_nodes_module>>

NextCrash ==
    \/ OpenSource
    \/ WriteSource
    \/ OpenRegistry
    \/ WriteRegistry
    \/ Crash

SpecCrash == InitCrash /\ [][NextCrash]_vars

\* the texts the source file may hold: what it held before the operation,
\* what the operation writes, what it holds when the operation has returned
CompleteSources ==
    { fs.dir[inflight.target].code :
        fs \in { x \in {inflight.before, inflight.after.fs} :
                   Exists(x.dir, inflight.target) } }
    \cup {NewSource}

\* C17: the registry file and a node source file are written atomically
\* with respect to crashes: when the process stops during save_registry or
\* during the source write of create, update of code or update of
\* parameters, the file holds its complete previous content or its complete
\* new content, never an empty or cut one.
C17_CrashAtomicWrites ==
    (inflight.kind = "write" /\ inflight.crashed)
    => /\ registry_file \in {inflight.before.rf, inflight.after.fs.rf}
       /\ Exists(dir, inflight.target)
             => dir[inflight.target].code \in CompleteSources

(* ------------------------------------------------------------------ *)
(* Identifier resolution on its own: one source file of any make, the   *)
(* registry loaded for it and the plugin table loaded from it            *)
(* ------------------------------------------------------------------ *)

\* class names an author may choose
ClassNames ==
    { <<"X">>,
      <<"X", "n", "o", "d", "e">>,
      <<"N", "o", "d", "e", "X">>,
      <<"A", "a", "B", "b", "N", "o", "d", "e">>,
      <<"N", "o", "d", "e", "x", "n", "o", "d", "e">> }

\* source texts: with or without a marker, with or without a Node subclass,
\* the class stamped with __node_id__ or not
ResolveCodes ==
    { Code(m, st, c, PlainText) :
        m \in Ids \cup {None}, st \in Ids \cup {None}, c \in ClassNames }
    \cup { Code(m, None, None, PlainText) : m \in Ids \cup {None} }

\* a registry file without entries
EmptyRegistry == [state |-> "ok", nodes |-> <<>>]

InitResolve ==
    /\ \E c \in ResolveCodes :
          dir = [f \in {PyFile(<<"a">>)} |-> [code |-> c, mtime |-> 0]]
    /\ registry_file \in {AbsentFile, EmptyRegistry}
    /\ node \in BOOLEAN
    /\ steps = 0
    /\ last = NoLast(Fs)
    /\ _loaded_nodes = NoTable
    /\ custom_nodes_module = TRUE
    /\ inflight = Idle

\* reload_custom_nodes() is called
HotReload ==
    /\ steps < MaxSteps
    /\ \E env \in Envs :
          /\ Recorded("reload", None, NoCode, NoOutcome(Fs))
          /\ _loaded_nodes' = reload_custom_nodes(dir, env)

NextResolve ==
    \/ Load
    \/ HotReload

SpecResolve == InitResolve /\ [][NextResolve]_vars

\* the order of resolution: the marker in the text, else the id stamped on
\* the loaded class, else the id inferred from the name of the class
ResolvedInOrder(code) ==
    IF code.marker # None THEN code.marker
    ELSE IF code.cls = None THEN None
    ELSE IF code.stamped # None THEN code.stamped
    ELSE InferredId(code.cls)

\* the entries of nodes that name file f
EntriesNaming(nodes, f) == { i \in 1..Len(nodes) : nodes[i].pythonFile = f }

\* load_registry() has just met the files of the directory for the first time
FirstLoad ==
    /\ last.op = "load"
    /\ last.pre.rf.nodes = <<>>

\* C21: the identifier of a source file is resolved in a fixed order: a
\* marker with identifier X in the text gives X whatever the loaded class is
\* stamped with or named; without a marker the stamped attribute is used, and
\* without that the identifier is inferred from the class name.
C21_ResolutionOrder ==
    FirstLoad =>
       \A f \in DOMAIN last.pre.dir :
          LET code == last.pre.dir[f].code
          IN  /\ (code.marker # None /\ (node \/ last.pre.rf.state = "ok"))
                    => \E i \in 1..Len(last.loaded) :
                          /\ EntriesNaming(last.loaded, f) = {i}
                          /\ last.loaded[i].id = code.marker
              /\ (code.marker = None /\ node)
                    => IF ResolvedInOrder(code) = None
                       THEN EntriesNaming(last.loaded, f) = {}
                       ELSE \E i \in 1..Len(last.loaded) :
                               /\ EntriesNaming(last.loaded, f) = {i}
                               /\ last.loaded[i].id = ResolvedInOrder(code)

\* a file whose marker and stamped attribute disagree has been registered
\* under its marker
C21_Witness ==
    /\ FirstLoad
    /\ node
    /\ \E f \in DOMAIN last.pre.dir :
          /\ last.pre.dir[f].code.marker # None
          /\ last.pre.dir[f].code.stamped # None
          /\ last.pre.dir[f].code.stamped # last.pre.dir[f].code.marker
          /\ \E i \in 1..Len(last.loaded) :
                /\ last.loaded[i].pythonFile = f
                /\ last.loaded[i].id = last.pre.dir[f].code.marker

\* the registry entries the plugin table has no class for under their id and
\* file
EntriesNotLoaded(nodes) ==
    { i \in 1..Len(nodes) :
        ~(/\ nodes[i].id \in DOMAIN _loaded_nodes
          /\ _loaded_nodes[nodes[i].id].file = nodes[i].pythonFile) }

\* C29: after a hot reload the plugin table holds, under the id of every
\* registry entry, the class defined by the entry's file: the id the registry
\* derives for a file is the key load_custom_nodes gives its class.
C29_TableKeyIsRegistryId ==
    (last.op = "reload" /\ last.prev.op = "load" /\ node)
    => EntriesNotLoaded(last.prev.loaded) = {}

(* ------------------------------------------------------------------ *)
(* Reconciliation on its own: load_registry() and list_custom_nodes()   *)
(* over the directories and registries that creates and outside edits   *)
(* leave behind                                                         *)
(* ------------------------------------------------------------------ *)

\* mtimes of the files found at start: written before or after the registry
StartTimes == {0, 1}

ReconcileDirs ==
    UNION { [D -> { [code |-> c, mtime |-> m] : c \in Codes, m \in StartTimes }] :
            D \in SUBSET FileNames }

\* the entry create_custom_node(id) wrote at time 0
CreatedEntry(id) == NewEntry(id, PyFile(id), 0, 0)

\* registries left by creates: none, or one entry per created id
ReconcileRegistries ==
    {AbsentFile}
      \cup { [state |-> "ok", nodes |-> ns] :
               ns \in { <<>>, <<CreatedEntry(<<"a">>)>>, <<CreatedEntry(<<"b">>)>>,
                        <<CreatedEntry(<<"a">>), CreatedEntry(<<"b">>)>>,
                        <<CreatedEntry(<<"b">>), CreatedEntry(<<"a">>)>> } }

InitReconcile ==
    /\ node \in BOOLEAN
    /\ dir \in ReconcileDirs
    /\ registry_file \in ReconcileRegistries
    /\ steps = 0
    /\ last = NoLast(Fs)
    /\ _loaded_nodes = NoTable
    /\ custom_nodes_module = FALSE
    /\ inflight = Idle

NextReconcile == Load \/ List

SpecReconcile == InitReconcile /\ [][NextReconcile]_vars

\* the files of directory d that yield no id: no node class, or a module
\* that does not load
BadFiles(d) ==
    { f \in ScannedFiles(d) :
        _extract_node_id_from_file(d, f, [node |-> node]) = None }

\* the entries of nodes that do not name file f
OtherEntries(nodes, f) == SelectSeq(nodes, LAMBDA e : e.pythonFile # f)

\* the environments the last operation may have run in
LastEnvs ==
    { [node |-> node, now |-> steps, grev |-> r, srev |-> r, lim |-> l] :
        r \in BOOLEAN, l \in {RecursionLimit - 1, RecursionLimit} }

\* load_registry() over the files before the last operation gives the files
\* other than f the entries it gives them in the same directory without f
AsIfAbsent(f) ==
    \A env \in LastEnvs :
        OtherEntries(load_registry(last.pre, env, 0).nodes, f)
          = OtherEntries(load_registry([last.pre EXCEPT !.dir = Unlink(@, f)],
                                       env, 0).nodes, f)

\* no entry of the registry fs.rf names file f
Unregistered(fs, f) ==
    \A i \in 1..Len(fs.rf.nodes) : fs.rf.nodes[i].pythonFile # f

Pairs(nodes) == { <<nodes[i].id, nodes[i].pythonFile>> : i \in 1..Len(nodes) }

\* C27: over the same directory, the full scan that load_registry() runs
\* when there is no registry file returns the same (id, source file) pairs as
\* the incremental reconciliation of an empty registry.
C27_FullScanIsIncremental ==
    (last.op = "load" /\ last.pre.rf.state = "absent") =>
        \A env \in LastEnvs :
            Pairs(load_registry(last.pre, env, 0).nodes)
              = Pairs(load_registry([last.pre EXCEPT !.rf = EmptyRegistry],
                                    env, 0).nodes)

\* the lower-case underscore form s with its end made to read _node: left
\* alone when it ends with _node, else a trailing node cut off and _node added
EndSuffixed(s) ==
    IF EndsWith(s, UNodeSuffix) THEN s
    ELSE IF EndsWith(s, NodeSuffix)
         THEN SubSeq(s, 1, Len(s) - Len(NodeSuffix)) \o UNodeSuffix
         ELSE s \o UNodeSuffix

\* C35: an id inferred from a class name ends with _node exactly once: a
\* name whose lower-case underscore form ends with _node already is returned
\* as it is, and otherwise only the end of the id is altered to add the
\* suffix.
C35_InferredIdSuffixedAtEnd ==
    (/\ FirstLoad
     /\ node
     /\ \A f \in DOMAIN last.pre.dir :
           LET code == last.pre.dir[f].code
           IN  code.marker = None /\ code.stamped = None /\ code.cls # None)
    => \A i \in 1..Len(last.loaded) :
          LET name == last.pre.dir[last.loaded[i].pythonFile].code.cls
          IN  /\ last.loaded[i].id = EndSuffixed(camel_to_snake(name))
              /\ EndsWith(last.loaded[i].id, UNodeSuffix)
              /\ ~EndsWith(last.loaded[i].id, UNodeSuffix \o UNodeSuffix)

(* ------------------------------------------------------------------ *)
(* extract_node_metadata: the descriptor read from a loaded node class. *)
(* A class declares one input or output parameter and one configuration *)
(* parameter; Python values are written as text ("True", "False"), a    *)
(* key that a dict does not have as Missing.                            *)
(* ------------------------------------------------------------------ *)

Missing == "missing"

Flags == {"True", "False"}

\* a schema is a type name or a dict of fields
Schemas == {"string", "{'x': 'int'}"}

\* ParameterSchema(is_streaming=.., schema=.., description=..)
SchemaObjects ==
    { [kind |-> "ParameterSchema", is_streaming |-> s, schema |-> x,
       description |-> d] :
        s \in Flags, x \in Schemas, d \in {"", "d"} }

\* a dict with any of the keys is_streaming, isStreaming, schema, description
ParamDicts ==
    { [kind |-> "dict", is_streaming |-> s, isStreaming |-> c, schema |-> x,
       description |-> d] :
        s \in Flags \cup {Missing}, c \in Flags \cup {Missing},
        x \in Schemas \cup {Missing}, d \in {"d", Missing} }

\* configuration parameters: a type name, a dict, a FieldSchema object, or
\* anything else
ConfigDecls ==
    { [kind |-> "str", type |-> t, required |-> Missing] : t \in Schemas }
      \cup { [kind |-> k, type |-> t, required |-> r] :
               k \in {"dict", "FieldSchema"}, t \in Schemas, r \in {"True", Missing} }
      \cup { [kind |-> "other", type |-> Missing, required |-> Missing] }

NodeClasses ==
    { [attr |-> a, param |-> q, CONFIG_PARAMS |-> c] :
        a \in {"INPUT_PARAMS", "OUTPUT_PARAMS"},
        q \in SchemaObjects \cup ParamDicts, c \in ConfigDecls }

\* d.get(key, default)
DictGet(value, default) == IF value = Missing THEN default ELSE value

\* a or b
PyOr(a, b) == IF a = "True" THEN a ELSE b

\* a descriptor that reads the streaming flag of a dict from is_streaming only
ParamDescriptorSnakeOnly(param_schema) ==
    IF param_schema.kind = "ParameterSchema"
    THEN [isStreaming |-> param_schema.is_streaming,
          schema |-> param_schema.schema,
          description |-> param_schema.description]
    ELSE [isStreaming |-> DictGet(param_schema.is_streaming, "False"),
          schema |-> DictGet(param_schema.schema, "{}"),
          description |-> DictGet(param_schema.description, "")]

\* lines 178-191 and 197-209 of extract_node_metadata: the descriptor of one
\* input or output parameter
ParamDescriptor(param_schema) ==
    IF param_schema.kind = "ParameterSchema"
    THEN [isStreaming |-> param_schema.is_streaming,
          schema |-> param_schema.schema,
          description |-> param_schema.description]
    ELSE [isStreaming |-> PyOr(DictGet(param_schema.is_streaming, "False"),
                               DictGet(param_schema.isStreaming, "False")),
          schema |-> DictGet(param_schema.schema, "{}"),
          description |-> DictGet(param_schema.description, "")]

\* lines 217-245 of extract_node_metadata: the value stored for one
\* configuration parameter; a string is stored as the string it is, a dict
\* as the dict it is, a FieldSchema object as the dict of its fields,
\* anything else as "any"
ConfigValue(field_def) ==
    IF field_def.kind = "str" THEN [shape |-> "str", value |-> field_def.type]
    ELSE IF field_def.kind \in {"dict", "FieldSchema"}
    THEN [shape |-> "dict", type |-> field_def.type,
          required |-> field_def.required]
    ELSE [shape |-> "str", value |-> "any"]

\* extract_node_metadata(node_class)
extract_node_metadata(node_class, env) ==
    IF ~env.node THEN [shape |-> "empty"]
    ELSE [shape |-> "metadata",
          inputs |-> IF node_class.attr = "INPUT_PARAMS"
                     THEN <<ParamDescriptor(node_class.param)>> ELSE <<>>,
          outputs |-> IF node_class.attr = "OUTPUT_PARAMS"
                      THEN <<ParamDescriptor(node_class.param)>> ELSE <<>>,
          configParams |-> ConfigValue(node_class.CONFIG_PARAMS)]

InitMetadata ==
    /\ node \in BOOLEAN
    /\ dir = << >>
    /\ registry_file = AbsentFile
    /\ steps = 0
    /\ last = NoLast(Fs)
    /\ _loaded_nodes = NoTable
    /\ custom_nodes_module = FALSE
    /\ \E c \in NodeClasses : inflight = [kind |-> "loaded", node_class |-> c]

\* extract_node_metadata is called on the loaded class
ExtractMetadata ==
    /\ inflight.kind = "loaded"
    /\ inflight' = [kind |-> "extracted", node_class |-> inflight.node_class,
                    metadata |-> extract_node_metadata(inflight.node_class,
                                                       [node |-> node])]
    /\ UNCHANGED <<dir, registry_file, node, steps, last, _loaded_nodes,
                   custom_nodes_module>>

NextMetadata == ExtractMetadata

SpecMetadata == InitMetadata /\ [][NextMetadata]_vars

\* the metadata of a class was extracted, with the Node base class at hand
Extracted == inflight.kind = "extracted" /\ node

\* C36: a configuration parameter declared as a type-name string T comes out
\* in the shape of a detailed record, as {type: T}.
C36_ConfigStringNormalized ==
    (Extracted /\ inflight.node_class.CONFIG_PARAMS.kind = "str") =>
        inflight.metadata.configParams
          = ConfigValue([kind |-> "dict",
                         type |-> inflight.node_class.CONFIG_PARAMS.type,
                         required |-> Missing])

\* the streaming flag a dict declares, under either spelling of the key
\* (Missing: none, or two that disagree)
DeclaredFlag(d) ==
    IF d.is_streaming = Missing THEN d.isStreaming
    ELSE IF d.isStreaming \in {Missing, d.is_streaming} THEN d.is_streaming
    ELSE Missing

\* the descriptors of the parameters of the extracted class
Descriptors == inflight.metadata.inputs \o inflight.metadata.outputs

\* C37: an input or output parameter declared as a record with a streaming
\* flag and a schema gets the {isStreaming, schema} descriptor of the typed
\* schema object with that flag and that schema.
C37_RecordLikeSchemaObject ==
    (/\ Extracted
     /\ inflight.node_class.param.kind = "dict"
     /\ DeclaredFlag(inflight.node_class.param) # Missing
     /\ inflight.node_class.param.schema # Missing)
    => LET d == inflight.node_class.param
           object == [kind |-> "ParameterSchema",
                      is_streaming |-> DeclaredFlag(d), schema |-> d.schema,
                      description |-> DictGet(d.description, "")]
       IN  /\ Len(Descriptors) = 1
           /\ Descriptors[1].isStreaming = ParamDescriptor(object).isStreaming
           /\ Descriptors[1].schema = ParamDescriptor(object).schema
           /\ Descriptors[1].isStreaming = DeclaredFlag(d)
           /\ Descriptors[1].schema = d.schema

\* the descriptor of a streaming parameter declared as a record with the key
\* isStreaming was extracted
C37_Witness ==
    /\ Extracted
    /\ inflight.node_class.param.kind = "dict"
    /\ inflight.node_class.param.is_streaming = Missing
    /\ inflight.node_class.param.isStreaming = "True"
    /\ inflight.node_class.param.schema # Missing
    /\ Len(Descriptors) = 1

====
